---------------------------- MODULE Spec2Model ----------------------------
(***************************************************************************)
(* Model of the Raspberry Pi Pico HD44780U LCD driver (LCD_HD44780U.c/.h). *)
(*                                                                         *)
(* The driver is a sequential program.  Each C function is translated to   *)
(* an operator that yields the function's body as a sequence of            *)
(* instructions; an interpreter executes one externally visible call       *)
(* (a GPIO access, a sleep, malloc, free) per step against a recording     *)
(* GPIO backend and a simulated HD44780 controller.  Local computations    *)
(* (assignments to handle fields and to locals, the tests of if and while) *)
(* are executed together with the visible call that precedes them.         *)
(***************************************************************************)
EXTENDS Integers, Sequences, FiniteSets, TLC

(***************************************************************************)
(* Constants of LCD_HD44780U.h                                             *)
(***************************************************************************)
LCD_CLEARDISPLAY == 1
LCD_RETURNHOME == 2
LCD_ENTRYMODESET == 4
LCD_DISPLAYCONTROL == 8
LCD_CURSORSHIFT == 16
LCD_FUNCTIONSET == 32
LCD_SETCGRAMADDR == 64
LCD_SETDDRAMADDR == 128

LCD_ENTRYRIGHT == 0
LCD_ENTRYLEFT == 2
LCD_ENTRYSHIFTINCREMENT == 1
LCD_ENTRYSHIFTDECREMENT == 0

LCD_DISPLAYON == 4
LCD_DISPLAYOFF == 0
LCD_CURSORON == 2
LCD_CURSOROFF == 0
LCD_BLINKON == 1
LCD_BLINKOFF == 0

LCD_DISPLAYMOVE == 8
LCD_CURSORMOVE == 0
LCD_MOVERIGHT == 4
LCD_MOVELEFT == 0

LCD_8BITMODE == 16
LCD_4BITMODE == 0
LCD_2LINE == 8
LCD_1LINE == 0
LCD_5x10DOTS == 4
LCD_5x8DOTS == 0

\* The R/W pin value that means "not wired" (rw != 255 in the driver).
RW_UNUSED == 255

(***************************************************************************)
(* Bounds of the model                                                     *)
(***************************************************************************)
\* Public operations (other than init) called in one run.
MaxOps == 1
\* Calls of lcd_init_8bit / lcd_init_4bit in one run.
MaxInits == 2

(***************************************************************************)
(* uint8_t arithmetic                                                      *)
(***************************************************************************)
Pow2(i) == CASE i = 0 -> 1 [] i = 1 -> 2 [] i = 2 -> 4 [] i = 3 -> 8
             [] i = 4 -> 16 [] i = 5 -> 32 [] i = 6 -> 64 [] i = 7 -> 128
             [] OTHER -> 256

\* (x >> i) & 0x01
Bit(x, i) == (x \div Pow2(i)) % 2

\* x & y on values below 2^9 (int operands before truncation), bit by bit
And(x, y) ==
    (x % 2) * (y % 2)
    + 2 * ((x \div 2) % 2) * ((y \div 2) % 2)
    + 4 * ((x \div 4) % 2) * ((y \div 4) % 2)
    + 8 * ((x \div 8) % 2) * ((y \div 8) % 2)
    + 16 * ((x \div 16) % 2) * ((y \div 16) % 2)
    + 32 * ((x \div 32) % 2) * ((y \div 32) % 2)
    + 64 * ((x \div 64) % 2) * ((y \div 64) % 2)
    + 128 * ((x \div 128) % 2) * ((y \div 128) % 2)
    + 256 * ((x \div 256) % 2) * ((y \div 256) % 2)
\* x | y: every bit of x and of y, the common ones once
Or(x, y) == x + y - And(x, y)
\* conversion to uint8_t
U8(x) == x % 256
\* ~x as seen through a uint8_t operand
Not8(x) == 255 - x

\* The null pointer, in the place of a handle.
NULL == [null |-> TRUE]

(***************************************************************************)
(* Instructions.  A visible call: malloc, free, sleep_ms, sleep_us and the *)
(* gpio_* calls of the Pico SDK.  A local computation: h_set, reg_set and  *)
(* the command_* assignments.  Everything else names a function of the     *)
(* driver, whose body Body gives.                                          *)
(***************************************************************************)
Ins(op, a, b) == [op |-> op, a |-> a, b |-> b]

sleep_ms(n) == Ins("sleep_ms", n, 0)
sleep_us(n) == Ins("sleep_us", n, 0)
gpio_init(pin) == Ins("gpio_init", pin, 0)
gpio_init_mask(mask) == Ins("gpio_init_mask", mask, 0)
gpio_set_dir(pin, out) == Ins("gpio_set_dir", pin, out)
gpio_set_dir_out_masked(mask) == Ins("gpio_set_dir_out_masked", mask, 0)
gpio_set_dir_in_masked(mask) == Ins("gpio_set_dir_in_masked", mask, 0)
gpio_put(pin, v) == Ins("gpio_put", pin, v)
gpio_put_masked(mask, v) == Ins("gpio_put_masked", mask, v)
\* data |= gpio_get(pin) << i
gpio_get(pin, i) == Ins("gpio_get", pin, i)
gpio_set_function(pin) == Ins("gpio_set_function", pin, 0)
gpio_set_function_masked(mask) == Ins("gpio_set_function_masked", mask, 0)

h_set(f, v) == Ins("h_set", f, v)
reg_set(f, v) == Ins("reg_set", f, v)

GPIO_OUT == 1
GPIO_IN == 0

VisibleOps == {"malloc", "free", "sleep_ms", "sleep_us", "gpio_init",
               "gpio_init_mask", "gpio_set_dir", "gpio_set_dir_out_masked",
               "gpio_set_dir_in_masked", "gpio_put", "gpio_put_masked",
               "gpio_get", "gpio_set_function", "gpio_set_function_masked"}
LocalOps == {"h_set", "reg_set", "sent", "command_eq_data",
             "command_eq_data_shl4", "command_or_data", "ddram_eq_command"}

\* A value never assigned: malloc does not initialise the handle.
Undef == -1

\* The object malloc(sizeof(LCD_Handle)) returns.
FreshHandle ==
    [_rs_pin |-> Undef, _rw_pin |-> Undef, _enable_pin |-> Undef,
     _data_pins |-> <<Undef, Undef, Undef, Undef, Undef, Undef, Undef, Undef>>,
     _data_pins_mask |-> {}, _displayfunction |-> Undef,
     _displaycontrol |-> Undef, _displaymode |-> Undef, _numlines |-> Undef,
     _row_offsets |-> <<Undef, Undef, Undef, Undef>>]

\* The locals of the driver's functions that outlive one visible call, and
\* two records of the execution: "via", the channel function
\* (_lcd_send_command, _lcd_send_data) the execution is in, "raw" outside
\* both, and "sent", the calls of the two channel functions so far, each with
\* its RS level and its byte argument.
FreshReg == [data |-> 0, command |-> 0, ddram |-> 0, via |-> "raw", sent |-> <<>>]

(***************************************************************************)
(* Bit-Transfer Engine                                                     *)
(***************************************************************************)
\* for (int i = 0; i < n; i++) gpio_put(handle->_data_pins[i], (data >> i) & 0x01);
PutDataPins(h, data, n) ==
    [i \in 1..n |-> gpio_put(h._data_pins[i], Bit(data, i - 1))]

\* Mutant of GetDataPins: line i is sampled into bit n - 1 - i.
GetDataPinsMirrored(h, n) == [i \in 1..n |-> gpio_get(h._data_pins[i], n - i)]

\* for (int i = 0; i < n; i++) data |= gpio_get(handle->_data_pins[i]) << i;
GetDataPins(h, n) == [i \in 1..n |-> gpio_get(h._data_pins[i], i - 1)]

\* Mutant of WriteBits: 1 us after the pulse, whether or not R/W is wired.
WriteBitsShortWait(h, data, n) ==
    (IF h._rw_pin # RW_UNUSED
       THEN <<gpio_put(h._rw_pin, 0), sleep_us(1),
              gpio_set_dir_out_masked(h._data_pins_mask)>>
       ELSE <<>>)
    \o <<gpio_put(h._enable_pin, 1), sleep_us(1)>>
    \o PutDataPins(h, data, n)
    \o <<sleep_us(1), gpio_put(h._enable_pin, 0), sleep_us(1)>>

\* Mutant of WriteBits: R/W and the direction of the data lines are left
\* as they are.
WriteBitsNoTurn(h, data, n) ==
    <<gpio_put(h._enable_pin, 1), sleep_us(1)>>
    \o PutDataPins(h, data, n)
    \o <<sleep_us(1), gpio_put(h._enable_pin, 0)>>
    \o (IF h._rw_pin # RW_UNUSED THEN <<sleep_us(1)>> ELSE <<sleep_us(100)>>)

WriteBits(h, data, n) ==
    (IF h._rw_pin # RW_UNUSED
       THEN <<gpio_put(h._rw_pin, 0), sleep_us(1),
              gpio_set_dir_out_masked(h._data_pins_mask)>>
       ELSE <<>>)
    \o <<gpio_put(h._enable_pin, 1), sleep_us(1)>>
    \o PutDataPins(h, data, n)
    \o <<sleep_us(1), gpio_put(h._enable_pin, 0)>>
    \o (IF h._rw_pin # RW_UNUSED THEN <<sleep_us(1)>> ELSE <<sleep_us(100)>>)

_lcd_write_8_bits(h, data) == WriteBits(h, data, 8)

\* Mutant of _lcd_write_4_bits: the loop runs over the eight slots of
\* _data_pins.
_lcd_write_4_bits_all_slots(h, data) == WriteBits(h, data, 8)

_lcd_write_4_bits(h, data) == WriteBits(h, data, 4)

\* Mutant of ReadBits: no test of the R/W pin.
ReadBitsNoSentinel(h, n) ==
    <<reg_set("data", 0), gpio_set_dir_in_masked(h._data_pins_mask),
      gpio_put(h._rw_pin, 1), sleep_us(1),
      gpio_put(h._enable_pin, 1), sleep_us(1)>>
    \o GetDataPins(h, n)
    \o <<gpio_put(h._enable_pin, 0), sleep_us(1)>>

\* Mutant of ReadBits: R/W is raised before the data lines are made inputs.
ReadBitsRwFirst(h, n) ==
    IF h._rw_pin = RW_UNUSED
      THEN <<reg_set("data", Pow2(n) - 1)>>
      ELSE <<reg_set("data", 0), gpio_put(h._rw_pin, 1),
             gpio_set_dir_in_masked(h._data_pins_mask), sleep_us(1),
             gpio_put(h._enable_pin, 1), sleep_us(1)>>
           \o GetDataPins(h, n)
           \o <<gpio_put(h._enable_pin, 0), sleep_us(1)>>

ReadBits(h, n) ==
    IF h._rw_pin = RW_UNUSED
      THEN <<reg_set("data", Pow2(n) - 1)>>
      ELSE <<reg_set("data", 0), gpio_set_dir_in_masked(h._data_pins_mask),
             gpio_put(h._rw_pin, 1), sleep_us(1),
             gpio_put(h._enable_pin, 1), sleep_us(1)>>
           \o GetDataPins(h, n)
           \o <<gpio_put(h._enable_pin, 0), sleep_us(1)>>

_lcd_read_8_bits(h) == ReadBits(h, 8)

_lcd_read_4_bits(h) == ReadBits(h, 4)

(***************************************************************************)
(* Command/Data Channel                                                    *)
(***************************************************************************)
EightBit(h) == And(h._displayfunction, LCD_8BITMODE) # 0

\* Mutant of BusyWait: the write does not wait for the busy flag.
BusyWaitNone(h) == <<>>

\* Mutant of BusyWait: the busy flag is polled whether or not R/W is wired.
BusyWaitAlways(h) == <<Ins("while_lcd_busy", 0, 0)>>

\* Mutant of BusyWait: the busy flag is read once and not tested.
BusyWaitOnce(h) ==
    IF h._rw_pin # RW_UNUSED THEN <<Ins("_lcd_read_command", 0, 0)>> ELSE <<>>

\* while (_lcd_busy(handle)) { sleep_us(3); }
BusyWait(h) ==
    IF h._rw_pin # RW_UNUSED THEN <<Ins("while_lcd_busy", 0, 0)>> ELSE <<>>

\* Mutant of SendBits: in 4-bit mode the low nibble goes first.
SendBitsLowFirst(h, byte) ==
    IF EightBit(h)
      THEN <<Ins("_lcd_write_8_bits", byte, 0)>>
      ELSE <<Ins("_lcd_write_4_bits", byte, 0),
             Ins("_lcd_write_4_bits", byte \div 16, 0)>>

SendBits(h, byte) ==
    IF EightBit(h)
      THEN <<Ins("_lcd_write_8_bits", byte, 0)>>
      ELSE <<Ins("_lcd_write_4_bits", byte \div 16, 0),
             Ins("_lcd_write_4_bits", byte, 0)>>

\* Mutant of _lcd_send_command: the busy flag is polled after the write.
_lcd_send_command_poll_after(h, command) ==
    <<Ins("sent", 0, command), reg_set("via", "cmd")>>
    \o <<gpio_put(h._rs_pin, 0)>> \o SendBits(h, command) \o BusyWait(h)
    \o <<reg_set("via", "raw")>>

_lcd_send_command(h, command) ==
    <<Ins("sent", 0, command), reg_set("via", "cmd")>> \o BusyWait(h)
    \o <<gpio_put(h._rs_pin, 0)>> \o SendBits(h, command)
    \o <<reg_set("via", "raw")>>

_lcd_send_data(h, data) ==
    <<Ins("sent", 1, data), reg_set("via", "data")>> \o BusyWait(h)
    \o <<gpio_put(h._rs_pin, 1)>> \o SendBits(h, data)
    \o <<reg_set("via", "raw")>>

\* Mutant of ReadByte: in 4-bit mode the high nibble only is read.
ReadByteHighOnly(h) ==
    <<reg_set("command", 0)>>
    \o (IF EightBit(h)
          THEN <<Ins("_lcd_read_8_bits", 0, 0), Ins("command_eq_data", 0, 0)>>
          ELSE <<Ins("_lcd_read_4_bits", 0, 0),
                 Ins("command_eq_data_shl4", 0, 0)>>)

\* The body of _lcd_read_command and _lcd_read_data after the write of RS.
ReadByte(h) ==
    <<reg_set("command", 0)>>
    \o (IF EightBit(h)
          THEN <<Ins("_lcd_read_8_bits", 0, 0), Ins("command_eq_data", 0, 0)>>
          ELSE <<Ins("_lcd_read_4_bits", 0, 0), Ins("command_eq_data_shl4", 0, 0),
                 Ins("_lcd_read_4_bits", 0, 0), Ins("command_or_data", 0, 0)>>)

_lcd_read_command(h) == <<gpio_put(h._rs_pin, 0)>> \o ReadByte(h)

_lcd_read_data(h) == <<gpio_put(h._rs_pin, 1)>> \o ReadByte(h)

\* return _lcd_read_command(handle) & 0x80;
_lcd_busy(h) == <<Ins("_lcd_read_command", 0, 0)>>

\* One round of the while: the call of _lcd_busy, then the test of its result.
while_lcd_busy(h) == _lcd_busy(h) \o <<Ins("if_lcd_busy", 0, 0)>>

if_lcd_busy(h, reg) ==
    IF And(reg.command, 128) # 0
      THEN <<sleep_us(3), Ins("while_lcd_busy", 0, 0)>>
      ELSE <<>>

(***************************************************************************)
(* Controller Initialization Sequencer                                     *)
(***************************************************************************)
\* Mutant of RowOffsets: the table of a 20-column display, whatever cols is.
RowOffsetsFixed(cols) == <<U8(0), U8(64), U8(20), U8(84)>>

\* handle->_row_offsets[0..3] as _lcd_setup assigns them (uint8_t fields)
RowOffsets(cols) == <<U8(0), U8(64), U8(0 + cols), U8(64 + cols)>>

\* Mutant of SetupFunction: the font is set whatever rows is.
SetupFunctionAnyRows(df, rows, charsize) ==
    LET df1 == IF rows > 1 THEN Or(df, LCD_2LINE) ELSE df
    IN  IF charsize # LCD_5x8DOTS THEN Or(df1, LCD_5x10DOTS) ELSE df1

\* _displayfunction after the two ifs of _lcd_setup
SetupFunction(df, rows, charsize) ==
    LET df1 == IF rows > 1 THEN Or(df, LCD_2LINE) ELSE df
    IN  IF charsize # LCD_5x8DOTS /\ rows = 1 THEN Or(df1, LCD_5x10DOTS) ELSE df1

\* Mutant of Handshake: one write in 8-bit mode, the nibbles 0x3 and 0x2 in
\* 4-bit mode.
HandshakeOnce(df) ==
    IF And(df, LCD_8BITMODE) # 0
      THEN <<Ins("_lcd_write_8_bits", Or(LCD_FUNCTIONSET, df), 0), sleep_ms(5)>>
      ELSE <<Ins("_lcd_write_4_bits", 3, 0), sleep_ms(5),
             Ins("_lcd_write_4_bits", 2, 0), sleep_ms(5)>>

\* Mutant of Handshake: two function-set writes in 8-bit mode.
HandshakeTwice(df) ==
    IF And(df, LCD_8BITMODE) # 0
      THEN <<Ins("_lcd_write_8_bits", Or(LCD_FUNCTIONSET, df), 0), sleep_ms(5),
             Ins("_lcd_write_8_bits", Or(LCD_FUNCTIONSET, df), 0), sleep_ms(5)>>
      ELSE <<Ins("_lcd_write_4_bits", 3, 0), sleep_ms(5),
             Ins("_lcd_write_4_bits", 3, 0), sleep_ms(5),
             Ins("_lcd_write_4_bits", 3, 0), sleep_ms(5),
             Ins("_lcd_write_4_bits", 2, 0), sleep_ms(5)>>

\* Mutant of Handshake: in 4-bit mode the nibble 0x2 is not followed by a
\* delay.
HandshakeNoLastDelay(df) ==
    IF And(df, LCD_8BITMODE) # 0
      THEN <<Ins("_lcd_write_8_bits", Or(LCD_FUNCTIONSET, df), 0), sleep_ms(5),
             Ins("_lcd_write_8_bits", Or(LCD_FUNCTIONSET, df), 0), sleep_ms(5),
             Ins("_lcd_write_8_bits", Or(LCD_FUNCTIONSET, df), 0), sleep_ms(5)>>
      ELSE <<Ins("_lcd_write_4_bits", 3, 0), sleep_ms(5),
             Ins("_lcd_write_4_bits", 3, 0), sleep_ms(5),
             Ins("_lcd_write_4_bits", 3, 0), sleep_ms(5),
             Ins("_lcd_write_4_bits", 2, 0)>>

\* The mode handshake of _lcd_setup, df the handle's _displayfunction.
Handshake(df) ==
    IF And(df, LCD_8BITMODE) # 0
      THEN <<Ins("_lcd_write_8_bits", Or(LCD_FUNCTIONSET, df), 0), sleep_ms(5),
             Ins("_lcd_write_8_bits", Or(LCD_FUNCTIONSET, df), 0), sleep_ms(5),
             Ins("_lcd_write_8_bits", Or(LCD_FUNCTIONSET, df), 0), sleep_ms(5)>>
      ELSE <<Ins("_lcd_write_4_bits", 3, 0), sleep_ms(5),
             Ins("_lcd_write_4_bits", 3, 0), sleep_ms(5),
             Ins("_lcd_write_4_bits", 3, 0), sleep_ms(5),
             Ins("_lcd_write_4_bits", 2, 0), sleep_ms(5)>>

\* Mutant of _lcd_setup: the entry mode is set before the display control.
_lcd_setup_swapped(h, cols, rows, charsize) ==
    LET df == SetupFunction(h._displayfunction, rows, charsize)
        dc == Or(Or(LCD_DISPLAYON, LCD_CURSOROFF), LCD_BLINKOFF)
        dm == Or(LCD_ENTRYLEFT, LCD_ENTRYSHIFTDECREMENT)
    IN  <<h_set("_displayfunction", df), h_set("_numlines", rows),
          h_set("_row_offsets", RowOffsets(cols))>>
        \o Handshake(df)
        \o <<Ins("_lcd_send_command", Or(LCD_FUNCTIONSET, df), 0),
             h_set("_displaymode", dm),
             Ins("_lcd_send_command", Or(LCD_ENTRYMODESET, dm), 0),
             h_set("_displaycontrol", dc),
             Ins("_lcd_send_command", Or(LCD_DISPLAYCONTROL, dc), 0)>>

_lcd_setup(h, cols, rows, charsize) ==
    LET df == SetupFunction(h._displayfunction, rows, charsize)
        dc == Or(Or(LCD_DISPLAYON, LCD_CURSOROFF), LCD_BLINKOFF)
        dm == Or(LCD_ENTRYLEFT, LCD_ENTRYSHIFTDECREMENT)
    IN  <<h_set("_displayfunction", df), h_set("_numlines", rows),
          h_set("_row_offsets", RowOffsets(cols))>>
        \o Handshake(df)
        \o <<Ins("_lcd_send_command", Or(LCD_FUNCTIONSET, df), 0),
             h_set("_displaycontrol", dc),
             Ins("_lcd_send_command", Or(LCD_DISPLAYCONTROL, dc), 0),
             h_set("_displaymode", dm),
             Ins("_lcd_send_command", Or(LCD_ENTRYMODESET, dm), 0)>>

_lcd_init_pins(h) ==
    <<gpio_init_mask(h._data_pins_mask),
      gpio_set_dir_out_masked(h._data_pins_mask),
      gpio_put_masked(h._data_pins_mask, 0),
      gpio_init(h._rs_pin), gpio_set_dir(h._rs_pin, GPIO_OUT),
      gpio_put(h._rs_pin, 0),
      gpio_init(h._enable_pin), gpio_set_dir(h._enable_pin, GPIO_OUT),
      gpio_put(h._enable_pin, 0)>>
    \o (IF h._rw_pin # RW_UNUSED
          THEN <<gpio_init(h._rw_pin), gpio_set_dir(h._rw_pin, GPIO_OUT),
                 gpio_put(h._rw_pin, 0)>>
          ELSE <<>>)

\* Mutant of _lcd_deinit_pins: the Read/Write line is not given up.
_lcd_deinit_pins_keep_rw(h) ==
    <<gpio_set_function_masked(h._data_pins_mask),
      gpio_set_function(h._rs_pin), gpio_set_function(h._enable_pin)>>

_lcd_deinit_pins(h) ==
    <<gpio_set_function_masked(h._data_pins_mask),
      gpio_set_function(h._rs_pin), gpio_set_function(h._enable_pin)>>
    \o (IF h._rw_pin # RW_UNUSED THEN <<gpio_set_function(h._rw_pin)>> ELSE <<>>)

\* The data-pin mask _lcd_init computes: (0x1 << d0) | ... over 8 or 4 pins.
DataPinsMask(d, eightbitmode) ==
    {d[i] : i \in 1..(IF eightbitmode THEN 8 ELSE 4)}

\* The arguments of _lcd_init: cols, rows, charsize, rs, rw, enable, the
\* eight data pins d and eightbitmode.
InitArgs(cols, rows, charsize, rs, rw, enable, d, eightbitmode) ==
    [cols |-> cols, rows |-> rows, charsize |-> charsize, rs |-> rs, rw |-> rw,
     enable |-> enable, d |-> d, eightbitmode |-> eightbitmode]

_lcd_init(args) == <<Ins("malloc", 0, 0), Ins("_lcd_init_handle", args, 0)>>

\* Mutant of _lcd_init_handle: the 50 ms wait comes before the test of
\* malloc's result.
_lcd_init_handle_wait_first(h, args) ==
    IF h = NULL THEN <<sleep_ms(50)>>
    ELSE <<sleep_ms(50),
           h_set("_rs_pin", args.rs), h_set("_rw_pin", args.rw),
           h_set("_enable_pin", args.enable), h_set("_data_pins", args.d),
           h_set("_displayfunction",
                 IF args.eightbitmode
                   THEN Or(Or(LCD_8BITMODE, LCD_1LINE), LCD_5x8DOTS)
                   ELSE Or(Or(LCD_4BITMODE, LCD_1LINE), LCD_5x8DOTS)),
           h_set("_data_pins_mask", DataPinsMask(args.d, args.eightbitmode)),
           Ins("_lcd_init_pins", 0, 0),
           Ins("_lcd_setup", args, 0),
           Ins("lcd_clear", 0, 0), Ins("lcd_home", 0, 0)>>

\* _lcd_init from the test of malloc's result on.
_lcd_init_handle(h, args) ==
    IF h = NULL THEN <<>>
    ELSE <<sleep_ms(50),
           h_set("_rs_pin", args.rs), h_set("_rw_pin", args.rw),
           h_set("_enable_pin", args.enable), h_set("_data_pins", args.d),
           h_set("_displayfunction",
                 IF args.eightbitmode
                   THEN Or(Or(LCD_8BITMODE, LCD_1LINE), LCD_5x8DOTS)
                   ELSE Or(Or(LCD_4BITMODE, LCD_1LINE), LCD_5x8DOTS)),
           h_set("_data_pins_mask", DataPinsMask(args.d, args.eightbitmode)),
           Ins("_lcd_init_pins", 0, 0),
           Ins("_lcd_setup", args, 0),
           Ins("lcd_clear", 0, 0), Ins("lcd_home", 0, 0)>>

lcd_init_8bit(cols, rows, charsize, rs, rw, enable, d) ==
    _lcd_init(InitArgs(cols, rows, charsize, rs, rw, enable, d, TRUE))

\* d4..d7 go to the slots d0..d3 of _lcd_init, the other four slots get 0.
lcd_init_4bit(cols, rows, charsize, rs, rw, enable, d) ==
    _lcd_init(InitArgs(cols, rows, charsize, rs, rw, enable,
                       <<d[1], d[2], d[3], d[4], 0, 0, 0, 0>>, FALSE))

(***************************************************************************)
(* Public operations on a handle                                           *)
(***************************************************************************)
\* Mutant of lcd_deinit: the lines are released before the display is
\* switched off.
lcd_deinit_release_first(h) ==
    IF h # NULL
      THEN <<Ins("lcd_clear", 0, 0), Ins("lcd_home", 0, 0),
             Ins("_lcd_deinit_pins", 0, 0), Ins("lcd_display_off", 0, 0),
             Ins("free", 0, 0)>>
      ELSE <<>>

lcd_deinit(h) ==
    IF h # NULL
      THEN <<Ins("lcd_clear", 0, 0), Ins("lcd_home", 0, 0),
             Ins("lcd_display_off", 0, 0), Ins("_lcd_deinit_pins", 0, 0),
             Ins("free", 0, 0)>>
      ELSE <<>>

\* Mutant of lcd_clear: the delay is outside the test of the handle.
lcd_clear_delay_always(h) ==
    (IF h = NULL THEN <<>>
     ELSE <<Ins("_lcd_send_command", LCD_CLEARDISPLAY, 0)>>) \o <<sleep_ms(5)>>

lcd_clear(h) ==
    IF h = NULL THEN <<>>
    ELSE <<Ins("_lcd_send_command", LCD_CLEARDISPLAY, 0), sleep_ms(5)>>

\* Mutant of lcd_home: no delay after the command.
lcd_home_no_delay(h) ==
    IF h = NULL THEN <<>>
    ELSE <<Ins("_lcd_send_command", LCD_RETURNHOME, 0)>>

lcd_home(h) ==
    IF h = NULL THEN <<>>
    ELSE <<Ins("_lcd_send_command", LCD_RETURNHOME, 0), sleep_ms(5)>>

\* Mutant of FlagUpdate: the flag replaces the byte instead of changing one
\* bit of it.
FlagUpdateOverwrite(byte, flag, set) == IF set THEN flag ELSE 0

\* Mutant of FlagUpdate: the bit is inverted, whatever set is.
FlagUpdateFlip(byte, flag, set) ==
    IF And(byte, flag) # 0 THEN And(byte, Not8(flag)) ELSE Or(byte, flag)

\* handle->_displaycontrol &= ~flag (set = FALSE) or |= flag (set = TRUE)
FlagUpdate(byte, flag, set) ==
    IF set THEN Or(byte, flag) ELSE And(byte, Not8(flag))

\* Mutant of DisplayControlToggle: the command is built before the cached
\* byte is updated.
DisplayControlToggleStale(h, flag, set) ==
    IF h = NULL THEN <<>>
    ELSE LET dc == FlagUpdate(h._displaycontrol, flag, set)
         IN  <<Ins("_lcd_send_command",
                   Or(LCD_DISPLAYCONTROL, h._displaycontrol), 0),
               h_set("_displaycontrol", dc)>>

DisplayControlToggle(h, flag, set) ==
    IF h = NULL THEN <<>>
    ELSE LET dc == FlagUpdate(h._displaycontrol, flag, set)
         IN  <<h_set("_displaycontrol", dc),
               Ins("_lcd_send_command", Or(LCD_DISPLAYCONTROL, dc), 0)>>

\* Mutant of DisplayModeToggle: the result is stored in _displaycontrol.
DisplayModeToggleWrongByte(h, flag, set) ==
    IF h = NULL THEN <<>>
    ELSE LET dm == FlagUpdate(h._displaymode, flag, set)
         IN  <<h_set("_displaycontrol", dm),
               Ins("_lcd_send_command", Or(LCD_ENTRYMODESET, dm), 0)>>

DisplayModeToggle(h, flag, set) ==
    IF h = NULL THEN <<>>
    ELSE LET dm == FlagUpdate(h._displaymode, flag, set)
         IN  <<h_set("_displaymode", dm),
               Ins("_lcd_send_command", Or(LCD_ENTRYMODESET, dm), 0)>>

lcd_display_off(h) == DisplayControlToggle(h, LCD_DISPLAYON, FALSE)
lcd_display_on(h) == DisplayControlToggle(h, LCD_DISPLAYON, TRUE)
lcd_blink_off(h) == DisplayControlToggle(h, LCD_BLINKON, FALSE)
lcd_blink_on(h) == DisplayControlToggle(h, LCD_BLINKON, TRUE)
lcd_cursor_off(h) == DisplayControlToggle(h, LCD_CURSORON, FALSE)
lcd_cursor_on(h) == DisplayControlToggle(h, LCD_CURSORON, TRUE)

lcd_scroll_display_left(h) ==
    IF h = NULL THEN <<>>
    ELSE <<Ins("_lcd_send_command",
               Or(Or(LCD_CURSORSHIFT, LCD_DISPLAYMOVE), LCD_MOVELEFT), 0)>>

lcd_scroll_display_right(h) ==
    IF h = NULL THEN <<>>
    ELSE <<Ins("_lcd_send_command",
               Or(Or(LCD_CURSORSHIFT, LCD_DISPLAYMOVE), LCD_MOVERIGHT), 0)>>

lcd_left_to_right(h) == DisplayModeToggle(h, LCD_ENTRYLEFT, TRUE)
lcd_right_to_left(h) == DisplayModeToggle(h, LCD_ENTRYLEFT, FALSE)
lcd_autoscroll_off(h) == DisplayModeToggle(h, LCD_ENTRYSHIFTINCREMENT, FALSE)
lcd_autoscroll_on(h) == DisplayModeToggle(h, LCD_ENTRYSHIFTINCREMENT, TRUE)

(***************************************************************************)
(* Display State & Addressing                                              *)
(***************************************************************************)
\* sizeof(handle->_row_offsets) / sizeof(*handle->_row_offsets)
max_lines == 4

\* Mutant of CursorRow: the row is clamped to the table only.
CursorRowTableOnly(numlines, row) ==
    IF row >= max_lines THEN max_lines - 1 ELSE row

\* The index lcd_set_cursor reads _row_offsets with: uint8_t row after the
\* two ifs (numlines - 1 is converted to uint8_t).
CursorRow(numlines, row) ==
    LET r1 == IF row >= max_lines THEN max_lines - 1 ELSE row
    IN  IF r1 >= numlines THEN U8(numlines - 1) ELSE r1

\* handle->_row_offsets[row]; outside the array the read is undefined and
\* yields the byte ub.
RowOffsetAt(h, row, ub) ==
    IF row < max_lines THEN h._row_offsets[row + 1] ELSE ub

\* Mutant of CursorCommand: + in the place of |.
CursorCommandAdd(h, col, row, ub) ==
    U8(LCD_SETDDRAMADDR + col + RowOffsetAt(h, CursorRow(h._numlines, row), ub))

\* The uint8_t command lcd_set_cursor passes to _lcd_send_command.
CursorCommand(h, col, row, ub) ==
    U8(Or(LCD_SETDDRAMADDR,
          col + RowOffsetAt(h, CursorRow(h._numlines, row), ub)))

lcd_set_cursor(h, col, row, ub) ==
    IF h = NULL THEN <<>>
    ELSE <<Ins("_lcd_send_command", CursorCommand(h, col, row, ub), 0)>>

lcd_write_char(h, symbol) ==
    IF h = NULL THEN <<>> ELSE <<Ins("_lcd_send_data", U8(symbol), 0)>>

\* for (size_t i = 0; i < strlen(text); i++) lcd_write_char(handle, text[i]);
lcd_write_string(h, text) ==
    IF h = NULL THEN <<>>
    ELSE [i \in 1..Len(text) |-> Ins("lcd_write_char", text[i], 0)]

lcd_write_char_at(h, symbol, col, row, ub) ==
    IF h = NULL THEN <<>>
    ELSE <<Ins("lcd_set_cursor", <<col, row>>, ub),
           Ins("lcd_write_char", symbol, 0)>>

\* Mutant of lcd_write_string_at: the cursor is set after the text.
lcd_write_string_at_late(h, text, col, row, ub) ==
    IF h = NULL THEN <<>>
    ELSE <<Ins("lcd_write_string", text, 0),
           Ins("lcd_set_cursor", <<col, row>>, ub)>>

lcd_write_string_at(h, text, col, row, ub) ==
    IF h = NULL THEN <<>>
    ELSE <<Ins("lcd_set_cursor", <<col, row>>, ub),
           Ins("lcd_write_string", text, 0)>>

\* Mutant of CgramAddress: the character index is not masked.
CgramAddressUnmasked(num) == U8(num * 8)

\* uint8_t gcram_address = (num & 0x7) << 3;
CgramAddress(num) == U8(And(num, 7) * 8)

\* The command of round i (0..7) of the loop of lcd_create_char.
CgramCommand(num, i) == U8(Or(LCD_SETCGRAMADDR, CgramAddress(num) + i))

CreateCharLoop(num, data) ==
    [k \in 1..16 |->
       IF k % 2 = 1
         THEN Ins("_lcd_send_command", CgramCommand(num, (k - 1) \div 2), 0)
         ELSE Ins("_lcd_send_data", data[k \div 2], 0)]

lcd_create_char(h, num, data) ==
    IF h = NULL THEN <<>>
    ELSE <<reg_set("ddram", 0)>>
         \o (IF h._rw_pin # RW_UNUSED
               THEN <<Ins("_lcd_read_command", 0, 0), Ins("ddram_eq_command", 0, 0)>>
               ELSE <<>>)
         \o CreateCharLoop(num, data)
         \o <<Ins("lcd_create_char_restore", 0, 0)>>

\* Mutant of lcd_create_char_restore: the address is sent back whether or
\* not R/W is wired.
lcd_create_char_restore_always(h, reg) ==
    <<Ins("_lcd_send_command", Or(LCD_SETDDRAMADDR, reg.ddram), 0)>>

\* if (handle->_rw_pin != 255) _lcd_send_command(handle, LCD_SETDDRAMADDR | ddram_address);
lcd_create_char_restore(h, reg) ==
    IF h._rw_pin # RW_UNUSED
      THEN <<Ins("_lcd_send_command", Or(LCD_SETDDRAMADDR, reg.ddram), 0)>>
      ELSE <<>>

(***************************************************************************)
(* The interpreter                                                         *)
(***************************************************************************)
\* The body of the driver function an instruction calls, for the handle and
\* the locals at the time of the call.
Body(ins, h, reg) ==
    CASE ins.op = "_lcd_init_handle" -> _lcd_init_handle(h, ins.a)
      [] ins.op = "_lcd_init_pins" -> _lcd_init_pins(h)
      [] ins.op = "_lcd_setup" ->
            _lcd_setup(h, ins.a.cols, ins.a.rows, ins.a.charsize)
      [] ins.op = "_lcd_deinit_pins" -> _lcd_deinit_pins(h)
      [] ins.op = "_lcd_send_command" -> _lcd_send_command(h, ins.a)
      [] ins.op = "_lcd_send_data" -> _lcd_send_data(h, ins.a)
      [] ins.op = "_lcd_read_command" -> _lcd_read_command(h)
      [] ins.op = "_lcd_read_data" -> _lcd_read_data(h)
      [] ins.op = "_lcd_write_8_bits" -> _lcd_write_8_bits(h, ins.a)
      [] ins.op = "_lcd_write_4_bits" -> _lcd_write_4_bits(h, ins.a)
      [] ins.op = "_lcd_read_8_bits" -> _lcd_read_8_bits(h)
      [] ins.op = "_lcd_read_4_bits" -> _lcd_read_4_bits(h)
      [] ins.op = "while_lcd_busy" -> while_lcd_busy(h)
      [] ins.op = "if_lcd_busy" -> if_lcd_busy(h, reg)
      [] ins.op = "lcd_deinit" -> lcd_deinit(h)
      [] ins.op = "lcd_clear" -> lcd_clear(h)
      [] ins.op = "lcd_home" -> lcd_home(h)
      [] ins.op = "lcd_display_off" -> lcd_display_off(h)
      [] ins.op = "lcd_display_on" -> lcd_display_on(h)
      [] ins.op = "lcd_blink_off" -> lcd_blink_off(h)
      [] ins.op = "lcd_blink_on" -> lcd_blink_on(h)
      [] ins.op = "lcd_cursor_off" -> lcd_cursor_off(h)
      [] ins.op = "lcd_cursor_on" -> lcd_cursor_on(h)
      [] ins.op = "lcd_scroll_display_left" -> lcd_scroll_display_left(h)
      [] ins.op = "lcd_scroll_display_right" -> lcd_scroll_display_right(h)
      [] ins.op = "lcd_left_to_right" -> lcd_left_to_right(h)
      [] ins.op = "lcd_right_to_left" -> lcd_right_to_left(h)
      [] ins.op = "lcd_autoscroll_off" -> lcd_autoscroll_off(h)
      [] ins.op = "lcd_autoscroll_on" -> lcd_autoscroll_on(h)
      [] ins.op = "lcd_set_cursor" ->
            lcd_set_cursor(h, ins.a[1], ins.a[2], ins.b)
      [] ins.op = "lcd_write_char" -> lcd_write_char(h, ins.a)
      [] ins.op = "lcd_write_string" -> lcd_write_string(h, ins.a)
      [] ins.op = "lcd_write_char_at" ->
            lcd_write_char_at(h, ins.a[1], ins.a[2], ins.a[3], ins.b)
      [] ins.op = "lcd_write_string_at" ->
            lcd_write_string_at(h, ins.a[1], ins.a[2], ins.a[3], ins.b)
      [] ins.op = "lcd_create_char" -> lcd_create_char(h, ins.a, ins.b)
      [] ins.op = "lcd_create_char_restore" -> lcd_create_char_restore(h, reg)

\* The handle after a local computation.
LocalH(ins, h) ==
    IF ins.op = "h_set" THEN [h EXCEPT ![ins.a] = ins.b] ELSE h

\* The locals after a local computation.
LocalReg(ins, reg) ==
    CASE ins.op = "reg_set" -> [reg EXCEPT ![ins.a] = ins.b]
      [] ins.op = "sent" ->
            [reg EXCEPT !.sent = Append(@, [rs |-> ins.a, b |-> ins.b])]
      [] ins.op = "command_eq_data" -> [reg EXCEPT !.command = reg.data]
      [] ins.op = "command_eq_data_shl4" ->
            [reg EXCEPT !.command = U8(reg.data * 16)]
      [] ins.op = "command_or_data" ->
            [reg EXCEPT !.command = Or(reg.command, reg.data)]
      [] ins.op = "ddram_eq_command" ->
            [reg EXCEPT !.ddram = And(reg.command, 127)]
      [] OTHER -> reg

\* Runs the program up to its next visible call: calls are replaced by
\* their bodies and local computations are executed.  The program after
\* one step is bound as s, a value, so that evaluating ENABLED of an action
\* does not evaluate it again at each use.
RECURSIVE Normalize(_, _, _)
Normalize(todo, h, reg) ==
    IF todo = <<>> \/ todo[1].op \in VisibleOps
      THEN [todo |-> todo, h |-> h, reg |-> reg]
      ELSE LET step ==
                 IF todo[1].op \in LocalOps
                   THEN [todo |-> Tail(todo), h |-> LocalH(todo[1], h),
                         reg |-> LocalReg(todo[1], reg)]
                   ELSE [todo |-> Body(todo[1], h, reg) \o Tail(todo),
                         h |-> h, reg |-> reg]
           IN  CHOOSE n \in {Normalize(s.todo, s.h, s.reg) : s \in {step}} :
                  TRUE

(***************************************************************************)
(* The board: the wiring of Example.c.  DB0..DB7 of the controller are on  *)
(* GPIO 0..7, Enable on 8, R/W on 9 (or tied to ground) and RS on 10; a    *)
(* 4-bit handle uses DB4..DB7 only.                                        *)
(***************************************************************************)
LCD_RS == 10
LCD_RW == 9
LCD_EN == 8
LCD_D == <<0, 1, 2, 3, 4, 5, 6, 7>>
Pins == 0..10

Board(rw) == [rs |-> LCD_RS, rw |-> rw, en |-> LCD_EN, db |-> LCD_D]

(***************************************************************************)
(* GPIO Line Abstraction: the Pico SDK calls on a recording backend.       *)
(* A pin is [fn, oe, out]: its function, output enable and output value.   *)
(***************************************************************************)
PinReset == [fn |-> "null", oe |-> 0, out |-> 0]

\* gpio_init / gpio_init_mask: input, output value 0, function SIO
DoInit(g, pins) ==
    [p \in DOMAIN g |->
       IF p \in pins THEN [fn |-> "sio", oe |-> 0, out |-> 0] ELSE g[p]]

\* gpio_set_dir / gpio_set_dir_out_masked / gpio_set_dir_in_masked
DoSetDir(g, pins, out) ==
    [p \in DOMAIN g |-> IF p \in pins THEN [g[p] EXCEPT !.oe = out] ELSE g[p]]

\* gpio_put / gpio_put_masked with one value for every pin of the mask
DoPut(g, pins, v) ==
    [p \in DOMAIN g |-> IF p \in pins THEN [g[p] EXCEPT !.out = v] ELSE g[p]]

\* gpio_set_function(pin, GPIO_FUNC_NULL) / gpio_set_function_masked
DoRelease(g, pins) ==
    [p \in DOMAIN g |-> IF p \in pins THEN [g[p] EXCEPT !.fn = "null"] ELSE g[p]]

\* The level a pin drives onto its line (0 when it does not drive it).
Level(g, p) ==
    IF p \in DOMAIN g /\ g[p].fn = "sio" /\ g[p].oe = 1 THEN g[p].out ELSE 0

\* The control lines and DB7..DB0 as the controller sees them.
Lines(g, b) ==
    [e |-> Level(g, b.en), rs |-> Level(g, b.rs),
     rw |-> IF b.rw = RW_UNUSED THEN 0 ELSE Level(g, b.rw),
     db |-> Level(g, b.db[1]) + 2 * Level(g, b.db[2]) + 4 * Level(g, b.db[3])
            + 8 * Level(g, b.db[4]) + 16 * Level(g, b.db[5])
            + 32 * Level(g, b.db[6]) + 64 * Level(g, b.db[7])
            + 128 * Level(g, b.db[8])]

(***************************************************************************)
(* Simulated HD44780 controller.  An instruction or data byte is latched   *)
(* at the falling edge of Enable; the controller is then busy and the      *)
(* byte takes effect when the execution completes.                         *)
(***************************************************************************)
CtrlIdle ==
    [dl8 |-> TRUE, phase |-> "hi", hi |-> 0, busy |-> "no",
     pend |-> [rs |-> 0, b |-> 0], ac |-> 0, cg |-> FALSE, inc |-> TRUE,
     dout |-> 0, rdl |-> 0, last |-> [rs |-> 0, b |-> 0],
     store |-> [cg |-> FALSE, addr |-> 0, val |-> 0],
     overrun |-> FALSE]

\* The interface states the controller may be in when the driver starts:
\* after power-on (8-bit, internal reset running), and left in 4-bit mode
\* by an earlier session, before a high or before a low nibble.
CtrlStart ==
    {[CtrlIdle EXCEPT !.busy = "reset"],
     [CtrlIdle EXCEPT !.dl8 = FALSE, !.phase = "hi"],
     [CtrlIdle EXCEPT !.dl8 = FALSE, !.phase = "lo", !.hi = 0]}

\* Longest execution time in microseconds (datasheet: 37 us, 1.52 ms for
\* clear and home, 10 ms for the internal reset).
ExecUs(class) ==
    CASE class = "short" -> 37 [] class = "long" -> 1520
      [] class = "reset" -> 10000 [] OTHER -> 0

ExecClass(rs, b) == IF rs = 0 /\ b \in 1..3 THEN "long" ELSE "short"

\* The address counter after one step in the entry-mode direction.
AcStep(c, up) ==
    LET m == IF c.cg THEN 64 ELSE 128
    IN  IF up THEN (c.ac + 1) % m ELSE (c.ac + m - 1) % m

\* The controller when the pending byte has been executed (a controller
\* that is stuck stays busy).
Complete(c) ==
    LET p == c.pend
        d == [c EXCEPT !.busy = "no", !.last = p]
    IN  IF c.busy = "stuck" THEN c
        ELSE IF c.busy = "reset" THEN [c EXCEPT !.busy = "no"]
        ELSE IF p.rs = 1
          THEN [d EXCEPT !.store = [cg |-> c.cg, addr |-> c.ac, val |-> p.b],
                         !.ac = AcStep(c, c.inc)]
        ELSE CASE p.b = 1 -> [d EXCEPT !.ac = 0, !.cg = FALSE, !.inc = TRUE]
               [] p.b \in 2..3 -> [d EXCEPT !.ac = 0, !.cg = FALSE]
               [] p.b \in 4..7 -> [d EXCEPT !.inc = (Bit(p.b, 1) = 1)]
               [] p.b \in 16..31 ->
                     IF Bit(p.b, 3) = 0
                       THEN [d EXCEPT !.ac = AcStep(c, Bit(p.b, 2) = 1)]
                       ELSE d
               [] p.b \in 32..63 ->
                     [d EXCEPT !.dl8 = (Bit(p.b, 4) = 1),
                               !.phase = IF c.dl8 THEN "hi" ELSE c.phase]
               [] p.b \in 64..127 -> [d EXCEPT !.cg = TRUE, !.ac = p.b % 64]
               [] p.b \in 128..255 -> [d EXCEPT !.cg = FALSE, !.ac = p.b % 128]
               [] OTHER -> d

\* A whole byte has arrived: the controller starts to execute it (a byte
\* that arrives while it is busy is lost).
StartByte(c, rs, b) ==
    IF c.busy # "no" THEN c
    ELSE [c EXCEPT !.busy = ExecClass(rs, b), !.pend = [rs |-> rs, b |-> b]]

\* Falling edge of Enable with R/W low.
WriteLatch(c, rs, db) ==
    LET c1 == IF c.busy # "no" THEN [c EXCEPT !.overrun = TRUE] ELSE c
    IN  IF c.dl8 THEN StartByte(c1, rs, db)
        ELSE IF c.phase = "hi"
          THEN [c1 EXCEPT !.phase = "lo", !.hi = db \div 16]
          ELSE StartByte([c1 EXCEPT !.phase = "hi", !.hi = 0], rs,
                         c.hi * 16 + db \div 16)

\* Busy flag and address counter, as read with RS low.
CtrlStatus(c) == (IF c.busy # "no" THEN 128 ELSE 0) + c.ac

\* Rising edge of Enable with R/W high: the controller drives DB7..DB0, in
\* 4-bit mode the high nibble first, on DB7..DB4.
ReadRise(c, rs) ==
    LET v == IF rs = 0 THEN CtrlStatus(c) ELSE c.store.val
    IN  IF c.dl8 THEN [c EXCEPT !.dout = v]
        ELSE IF c.phase = "hi"
          THEN [c EXCEPT !.rdl = v, !.dout = (v \div 16) * 16]
          ELSE [c EXCEPT !.dout = (c.rdl % 16) * 16]

\* Falling edge of Enable with R/W high.
ReadFall(c) ==
    IF c.dl8 THEN c
    ELSE [c EXCEPT !.phase = IF c.phase = "hi" THEN "lo" ELSE "hi"]

\* The controller after the lines changed from old to new.
CtrlEdge(c, old, new) ==
    IF old.e = 0 /\ new.e = 1
      THEN IF new.rw = 1 THEN ReadRise(c, new.rs) ELSE c
    ELSE IF old.e = 1 /\ new.e = 0
      THEN IF new.rw = 1 THEN ReadFall(c) ELSE WriteLatch(c, new.rs, new.db)
    ELSE c

\* gpio_get(pin): the pin's own output when it drives the line, else what
\* the controller drives (while Enable and R/W are high), else 0.
GetLevel(g, b, c, pin) ==
    IF pin \notin DOMAIN g THEN 0
    ELSE IF g[pin].fn = "sio" /\ g[pin].oe = 1 THEN g[pin].out
    ELSE IF Lines(g, b).e = 1 /\ Lines(g, b).rw = 1
              /\ \E i \in 1..8 : b.db[i] = pin
      THEN Bit(c.dout, (CHOOSE i \in 1..8 : b.db[i] = pin) - 1)
    ELSE 0

(***************************************************************************)
(* State                                                                   *)
(***************************************************************************)
VARIABLES
    h,        \* the handle (the caller's pointer and the object it points to)
    todo,     \* the rest of the running operation, a visible call first
    reg,      \* the locals of the running operation
    op,       \* the running public operation, with the state it was called in
    calls,    \* public operations called so far (init apart)
    inits,    \* calls of init so far
    gpio,     \* the GPIO pins
    board,    \* the wiring
    ctrl,     \* the controller
    wlog,     \* the write transfers of the running operation, in order
    rdv,      \* the read transfers since the last write transfer (the last byte)
    nput,     \* gpio_put calls on data lines since Enable last rose
    half,     \* the 4-bit transfer made last, while its byte lacks a transfer
    trail,    \* no GPIO access since the last write transfer
    lead,     \* microseconds slept in the operation before its first GPIO access
    touched,  \* the operation has accessed GPIO
    bad       \* GPIO calls on a pin the board does not have

vars == <<h, todo, reg, op, calls, inits, gpio, board, ctrl, wlog, rdv, nput,
          half, trail, lead, touched, bad>>

Idle == [name |-> "idle", args |-> <<>>, h0 |-> NULL, c0 |-> NULL]

\* Inputs of the public operations
InitGeometry == {<<16, 2, LCD_5x8DOTS>>}
CursorArgs == {<<0, 1>>, <<5, 0>>}
Symbols == {65}
Texts == {<<>>, <<72, 105>>}
CharNums == {1}
Smiley == <<0, 17, 0, 0, 17, 14, 0, 0>>
Patterns == {Smiley}
\* What a read outside _row_offsets may yield.  On the handles of
\* InitGeometry (two rows) no read is outside the table.
UbBytes == {0}

\* The state before the first call, the controller and the caller's
\* program apart.
Start ==
    /\ h = NULL
    /\ reg = FreshReg
    /\ op = Idle
    /\ calls = 0
    /\ inits = 0
    /\ gpio = [p \in Pins |-> PinReset]
    /\ board \in {Board(LCD_RW), Board(RW_UNUSED)}
    /\ wlog = <<>>
    /\ rdv = <<>>
    /\ nput = 0
    /\ half = <<>>
    /\ trail = FALSE
    /\ lead = 0
    /\ touched = FALSE
    /\ bad = {}

Init == Start /\ todo = <<>> /\ ctrl \in CtrlStart

(***************************************************************************)
(* Calls of the public operations                                          *)
(***************************************************************************)
\* The caller calls a public operation: the program runs up to its first
\* visible call.
Call(name, args, ins) ==
    LET n == Normalize(<<ins>>, h, FreshReg)
    IN  /\ op.name = "idle"
        /\ op' = [name |-> name, args |-> args, h0 |-> h, c0 |-> ctrl]
        /\ todo' = n.todo
        /\ h' = n.h
        /\ reg' = n.reg
        /\ wlog' = <<>>
        /\ rdv' = <<>>
        /\ trail' = FALSE
        /\ lead' = 0
        /\ touched' = FALSE
        /\ UNCHANGED <<gpio, board, ctrl, nput, half, bad>>

CallInit(name, body) ==
    /\ h = NULL
    /\ inits < MaxInits
    /\ inits' = inits + 1
    /\ calls' = calls
    /\ op.name = "idle"
    /\ LET n == Normalize(body, h, FreshReg)
       IN  /\ todo' = n.todo
           /\ h' = n.h
           /\ reg' = n.reg
    /\ op' = [name |-> name, args |-> body[2].a, h0 |-> h, c0 |-> ctrl]
    /\ wlog' = <<>>
    /\ rdv' = <<>>
    /\ trail' = FALSE
    /\ lead' = 0
    /\ touched' = FALSE
    /\ UNCHANGED <<gpio, board, ctrl, nput, half, bad>>

Call_lcd_init_8bit ==
    \E g \in InitGeometry :
       CallInit("lcd_init_8bit",
                lcd_init_8bit(g[1], g[2], g[3], board.rs, board.rw, board.en,
                              board.db))

Call_lcd_init_4bit ==
    \E g \in InitGeometry :
       CallInit("lcd_init_4bit",
                lcd_init_4bit(g[1], g[2], g[3], board.rs, board.rw, board.en,
                              SubSeq(board.db, 5, 8)))

CallOp(name, args, ins) ==
    /\ calls < MaxOps
    /\ calls' = calls + 1
    /\ inits' = inits
    /\ Call(name, args, ins)

Call_lcd_deinit == CallOp("lcd_deinit", <<>>, Ins("lcd_deinit", 0, 0))
Call_lcd_clear == CallOp("lcd_clear", <<>>, Ins("lcd_clear", 0, 0))
Call_lcd_home == CallOp("lcd_home", <<>>, Ins("lcd_home", 0, 0))
Call_lcd_display_off ==
    CallOp("lcd_display_off", <<>>, Ins("lcd_display_off", 0, 0))
Call_lcd_display_on ==
    CallOp("lcd_display_on", <<>>, Ins("lcd_display_on", 0, 0))
Call_lcd_blink_off == CallOp("lcd_blink_off", <<>>, Ins("lcd_blink_off", 0, 0))
Call_lcd_blink_on == CallOp("lcd_blink_on", <<>>, Ins("lcd_blink_on", 0, 0))
Call_lcd_cursor_off ==
    CallOp("lcd_cursor_off", <<>>, Ins("lcd_cursor_off", 0, 0))
Call_lcd_cursor_on == CallOp("lcd_cursor_on", <<>>, Ins("lcd_cursor_on", 0, 0))
Call_lcd_scroll_display_left ==
    CallOp("lcd_scroll_display_left", <<>>, Ins("lcd_scroll_display_left", 0, 0))
Call_lcd_scroll_display_right ==
    CallOp("lcd_scroll_display_right", <<>>,
           Ins("lcd_scroll_display_right", 0, 0))
Call_lcd_left_to_right ==
    CallOp("lcd_left_to_right", <<>>, Ins("lcd_left_to_right", 0, 0))
Call_lcd_right_to_left ==
    CallOp("lcd_right_to_left", <<>>, Ins("lcd_right_to_left", 0, 0))
Call_lcd_autoscroll_off ==
    CallOp("lcd_autoscroll_off", <<>>, Ins("lcd_autoscroll_off", 0, 0))
Call_lcd_autoscroll_on ==
    CallOp("lcd_autoscroll_on", <<>>, Ins("lcd_autoscroll_on", 0, 0))

Call_lcd_set_cursor ==
    \E cr \in CursorArgs, ub \in UbBytes :
       CallOp("lcd_set_cursor", [row |-> cr[2], ub |-> ub, col |-> cr[1]],
              Ins("lcd_set_cursor", cr, ub))

Call_lcd_write_char ==
    \E c \in Symbols :
       CallOp("lcd_write_char", [symbol |-> c], Ins("lcd_write_char", c, 0))

Call_lcd_write_string ==
    \E t \in Texts :
       CallOp("lcd_write_string", [text |-> t], Ins("lcd_write_string", t, 0))

Call_lcd_write_char_at ==
    \E c \in Symbols, cr \in CursorArgs, ub \in UbBytes :
       CallOp("lcd_write_char_at",
              [row |-> cr[2], ub |-> ub, col |-> cr[1], symbol |-> c],
              Ins("lcd_write_char_at", <<c, cr[1], cr[2]>>, ub))

Call_lcd_write_string_at ==
    \E t \in Texts, cr \in CursorArgs, ub \in UbBytes :
       CallOp("lcd_write_string_at",
              [row |-> cr[2], ub |-> ub, col |-> cr[1], text |-> t],
              Ins("lcd_write_string_at", <<t, cr[1], cr[2]>>, ub))

Call_lcd_create_char ==
    \E num \in CharNums, data \in Patterns :
       CallOp("lcd_create_char", [data |-> data, num |-> num],
              Ins("lcd_create_char", num, data))

(***************************************************************************)
(* The visible calls                                                       *)
(***************************************************************************)
Running(opname) == Len(todo) > 0 /\ todo[1].op = opname

\* The program goes on to its next visible call.
Advance(h1, reg1) ==
    LET n == Normalize(Tail(todo), h1, reg1)
    IN  /\ todo' = n.todo
        /\ h' = n.h
        /\ reg' = n.reg

\* Data lines of the handle: 8 in 8-bit mode, 4 in 4-bit mode.
BusWidth(hh) == IF EightBit(hh) THEN 8 ELSE 4

RECURSIVE BusSum(_, _, _, _, _)
BusSum(g, b, c, hh, i) ==
    IF i > BusWidth(hh) THEN 0
    ELSE GetLevel(g, b, c, hh._data_pins[i]) * Pow2(i - 1)
         + BusSum(g, b, c, hh, i + 1)

\* The value on the handle's data lines, line i as bit i.
BusValue(g, b, c, hh) == BusSum(g, b, c, hh, 1)

\* The last n elements of s.
KeepLast(s, n) == IF Len(s) > n THEN SubSeq(s, Len(s) - n + 1, Len(s)) ELSE s

\* A GPIO call on the pins ps that leaves the pins as g1: the controller
\* sees the edges of Enable and the backend records the transfer that a
\* falling edge ends; on a 4-bit handle the transfers pair up into bytes.
GpioCall(ps, g1) ==
    LET old == Lines(gpio, board)
        new == Lines(g1, board)
        rise == old.e = 0 /\ new.e = 1
        fall == old.e = 1 /\ new.e = 0
        val == BusValue(gpio, board, ctrl, h)
        dataput == todo[1].op = "gpio_put" /\ todo[1].a \in h._data_pins_mask
    IN  /\ gpio' = g1
        /\ ctrl' = CtrlEdge(ctrl, old, new)
        /\ wlog' = IF fall /\ new.rw = 0
                     THEN Append(wlog, [rs |-> new.rs, val |-> val,
                                        w |-> nput, via |-> reg.via,
                                        pre |-> rdv, gap |-> 0])
                     ELSE wlog
        /\ rdv' = IF fall /\ new.rw = 0 THEN <<>>
                  ELSE IF fall
                    THEN KeepLast(Append(rdv, [rs |-> new.rs, val |-> val]),
                                  8 \div BusWidth(h))
                    ELSE rdv
        /\ nput' = IF rise THEN 0
                   ELSE IF dataput /\ old.e = 1 THEN nput + 1 ELSE nput
        /\ half' = IF fall /\ ~EightBit(h)
                     THEN IF half = <<>>
                            THEN <<[rs |-> new.rs, rw |-> new.rw]>>
                            ELSE <<>>
                     ELSE half
        /\ trail' = (fall /\ new.rw = 0)
        /\ touched' = TRUE
        /\ bad' = IF ps \subseteq Pins THEN bad ELSE bad \cup {"pin"}
        /\ UNCHANGED <<op, calls, inits, board, lead>>

\* A sleep of d microseconds.  A busy controller completes when d covers
\* its execution time, and may complete when it does not.
Sleep(d) ==
    /\ \/ /\ ctrl.busy # "no"
          /\ ctrl' = Complete(ctrl)
       \/ /\ ctrl.busy = "no" \/ d < ExecUs(ctrl.busy)
          /\ ctrl' = ctrl
    /\ lead' = IF touched THEN lead ELSE lead + d
    /\ wlog' = IF trail /\ Len(wlog) > 0
                 THEN [wlog EXCEPT ![Len(wlog)].gap = @ + d]
                 ELSE wlog
    /\ Advance(h, reg)
    /\ UNCHANGED <<op, calls, inits, gpio, board, rdv, nput, half, trail,
                   touched, bad>>

NoGpio ==
    UNCHANGED <<gpio, ctrl, wlog, rdv, nput, half, trail, touched, bad, lead>>

\* malloc(sizeof(LCD_Handle)) returns an object or NULL.
Malloc ==
    /\ Running("malloc")
    /\ \E ok \in BOOLEAN : Advance(IF ok THEN FreshHandle ELSE NULL, reg)
    /\ NoGpio
    /\ UNCHANGED <<op, calls, inits, board>>

Free ==
    /\ Running("free")
    /\ Advance(NULL, reg)
    /\ NoGpio
    /\ UNCHANGED <<op, calls, inits, board>>

SleepMs == Running("sleep_ms") /\ Sleep(1000 * todo[1].a)

SleepUs == Running("sleep_us") /\ Sleep(todo[1].a)

GpioInit ==
    /\ Running("gpio_init")
    /\ GpioCall({todo[1].a}, DoInit(gpio, {todo[1].a}))
    /\ Advance(h, reg)

GpioInitMask ==
    /\ Running("gpio_init_mask")
    /\ GpioCall(todo[1].a, DoInit(gpio, todo[1].a))
    /\ Advance(h, reg)

GpioSetDir ==
    /\ Running("gpio_set_dir")
    /\ GpioCall({todo[1].a}, DoSetDir(gpio, {todo[1].a}, todo[1].b))
    /\ Advance(h, reg)

GpioSetDirOutMasked ==
    /\ Running("gpio_set_dir_out_masked")
    /\ GpioCall(todo[1].a, DoSetDir(gpio, todo[1].a, GPIO_OUT))
    /\ Advance(h, reg)

GpioSetDirInMasked ==
    /\ Running("gpio_set_dir_in_masked")
    /\ GpioCall(todo[1].a, DoSetDir(gpio, todo[1].a, GPIO_IN))
    /\ Advance(h, reg)

GpioPut ==
    /\ Running("gpio_put")
    /\ GpioCall({todo[1].a}, DoPut(gpio, {todo[1].a}, todo[1].b))
    /\ Advance(h, reg)

GpioPutMasked ==
    /\ Running("gpio_put_masked")
    /\ GpioCall(todo[1].a, DoPut(gpio, todo[1].a, todo[1].b))
    /\ Advance(h, reg)

\* data |= gpio_get(pin) << i
GpioGet ==
    /\ Running("gpio_get")
    /\ GpioCall({todo[1].a}, gpio)
    /\ Advance(h, [reg EXCEPT !.data =
                     Or(reg.data,
                        GetLevel(gpio, board, ctrl, todo[1].a) * Pow2(todo[1].b))])

GpioSetFunction ==
    /\ Running("gpio_set_function")
    /\ GpioCall({todo[1].a}, DoRelease(gpio, {todo[1].a}))
    /\ Advance(h, reg)

GpioSetFunctionMasked ==
    /\ Running("gpio_set_function_masked")
    /\ GpioCall(todo[1].a, DoRelease(gpio, todo[1].a))
    /\ Advance(h, reg)

\* The operation returns to the caller.
Return ==
    /\ op.name # "idle"
    /\ Len(todo) = 0
    /\ op' = Idle
    /\ reg' = FreshReg
    /\ wlog' = <<>>
    /\ rdv' = <<>>
    /\ trail' = FALSE
    /\ lead' = 0
    /\ touched' = FALSE
    /\ UNCHANGED <<h, todo, calls, inits, gpio, board, ctrl, nput, half, bad>>

\* Time passes between two operations: a busy controller completes.
Elapse ==
    /\ op.name = "idle"
    /\ ctrl.busy # "no"
    /\ ctrl' = Complete(ctrl)
    /\ UNCHANGED <<h, todo, reg, op, calls, inits, gpio, board, wlog, rdv,
                   nput, half, trail, lead, touched, bad>>

Next ==
    \/ Call_lcd_init_8bit \/ Call_lcd_init_4bit \/ Call_lcd_deinit
    \/ Call_lcd_clear \/ Call_lcd_home
    \/ Call_lcd_display_off \/ Call_lcd_display_on
    \/ Call_lcd_blink_off \/ Call_lcd_blink_on
    \/ Call_lcd_cursor_off \/ Call_lcd_cursor_on
    \/ Call_lcd_scroll_display_left \/ Call_lcd_scroll_display_right
    \/ Call_lcd_left_to_right \/ Call_lcd_right_to_left
    \/ Call_lcd_autoscroll_off \/ Call_lcd_autoscroll_on
    \/ Call_lcd_set_cursor \/ Call_lcd_write_char \/ Call_lcd_write_string
    \/ Call_lcd_write_char_at \/ Call_lcd_write_string_at
    \/ Call_lcd_create_char
    \/ Malloc \/ Free \/ SleepMs \/ SleepUs
    \/ GpioInit \/ GpioInitMask \/ GpioSetDir \/ GpioSetDirOutMasked
    \/ GpioSetDirInMasked \/ GpioPut \/ GpioPutMasked \/ GpioGet
    \/ GpioSetFunction \/ GpioSetFunctionMasked
    \/ Return \/ Elapse

Spec == Init /\ [][Next]_vars

\* A step of the running operation: the SDK call it has reached, or its
\* return.
Step ==
    \/ Malloc \/ Free \/ SleepMs \/ SleepUs
    \/ GpioInit \/ GpioInitMask \/ GpioSetDir \/ GpioSetDirOutMasked
    \/ GpioSetDirInMasked \/ GpioPut \/ GpioPutMasked \/ GpioGet
    \/ GpioSetFunction \/ GpioSetFunctionMasked
    \/ Return

\* The controller, whose busy flag the driver can read, completes its
\* execution during a sleep of the driver.
Finish ==
    /\ board.rw # RW_UNUSED
    /\ ctrl.busy # "no"
    /\ SleepMs \/ SleepUs
    /\ ctrl' = Complete(ctrl)

\* The program of Spec on a processor that keeps executing the running
\* operation, with a controller that does not stay busy for ever while the
\* driver polls it.  Nothing is assumed of the controller on a board
\* without R/W.
SpecLive == Spec /\ WF_vars(Step) /\ SF_vars(Finish)

(***************************************************************************)
(* A second handle.  Its lines are lines that the handle of the running    *)
(* operation does not own; its operations, interleaved with the running    *)
(* one call by call, drive those lines or let time pass.                   *)
(***************************************************************************)
\* The GPIO lines of the handle hh: RS, Enable, R/W when wired and the data
\* lines of its mask.
HandleLines(hh) ==
    hh._data_pins_mask \cup {hh._rs_pin, hh._enable_pin}
    \cup (IF hh._rw_pin # RW_UNUSED THEN {hh._rw_pin} ELSE {})

\* The lines of the handle the running operation works on: for an init
\* function those of its arguments.
OwnLines ==
    IF op.name \in {"lcd_init_8bit", "lcd_init_4bit"}
      THEN DataPinsMask(op.args.d, op.args.eightbitmode)
           \cup {op.args.rs, op.args.enable}
           \cup (IF op.args.rw # RW_UNUSED THEN {op.args.rw} ELSE {})
    ELSE IF op.h0 # NULL THEN HandleLines(op.h0)
    ELSE {}

\* Lines a second handle may have.
OtherLines == {LCD_D[1], LCD_RW}

Foreign ==
    /\ op.name # "idle"
    /\ \/ /\ \E p \in OtherLines \ OwnLines, v \in {0, 1} :
                gpio' = [gpio EXCEPT ![p] = [fn |-> "sio", oe |-> 1, out |-> v]]
          /\ ctrl' = ctrl
       \/ /\ ctrl.busy # "no"
          /\ ctrl' = Complete(ctrl)
          /\ gpio' = gpio
    /\ UNCHANGED <<h, todo, reg, op, calls, inits, board, wlog, rdv, nput,
                   half, trail, lead, touched, bad>>

NextShared == Next \/ Foreign

SpecShared == Init /\ [][NextShared]_vars

(***************************************************************************)
(* Sequences of cursor operations on the bus: after init, up to MaxSeqOps  *)
(* calls of lcd_set_cursor, lcd_write_char and lcd_create_char, each call  *)
(* made as soon as the one before has returned or later.                   *)
(***************************************************************************)
MaxSeqOps == 2

SeqOp(name, args, ins) ==
    /\ calls < MaxSeqOps
    /\ calls' = calls + 1
    /\ inits' = inits
    /\ Call(name, args, ins)

Seq_lcd_set_cursor ==
    \E cr \in CursorArgs, ub \in UbBytes :
       SeqOp("lcd_set_cursor", [row |-> cr[2], ub |-> ub, col |-> cr[1]],
             Ins("lcd_set_cursor", cr, ub))

Seq_lcd_write_char ==
    \E c \in Symbols :
       SeqOp("lcd_write_char", [symbol |-> c], Ins("lcd_write_char", c, 0))

Seq_lcd_create_char ==
    \E num \in CharNums, data \in Patterns :
       SeqOp("lcd_create_char", [data |-> data, num |-> num],
             Ins("lcd_create_char", num, data))

NextCursor ==
    \/ Call_lcd_init_8bit \/ Call_lcd_init_4bit
    \/ Seq_lcd_set_cursor \/ Seq_lcd_write_char \/ Seq_lcd_create_char
    \/ Malloc \/ SleepMs \/ SleepUs
    \/ GpioInit \/ GpioInitMask \/ GpioSetDir \/ GpioSetDirOutMasked
    \/ GpioSetDirInMasked \/ GpioPut \/ GpioPutMasked \/ GpioGet
    \/ Return \/ Elapse

SpecCursor == Init /\ [][NextCursor]_vars

(***************************************************************************)
(* Life of a handle on the bus: the init functions, lcd_deinit and calls   *)
(* that change the cached flag bytes before it, so that lcd_deinit meets   *)
(* handles in several display states and an init may follow a lcd_deinit.  *)
(***************************************************************************)
Seq_lcd_cursor_on ==
    SeqOp("lcd_cursor_on", <<>>, Ins("lcd_cursor_on", 0, 0))

Seq_lcd_display_off ==
    SeqOp("lcd_display_off", <<>>, Ins("lcd_display_off", 0, 0))

Seq_lcd_autoscroll_on ==
    SeqOp("lcd_autoscroll_on", <<>>, Ins("lcd_autoscroll_on", 0, 0))

Seq_lcd_deinit == SeqOp("lcd_deinit", <<>>, Ins("lcd_deinit", 0, 0))

NextLife ==
    \/ Call_lcd_init_8bit \/ Call_lcd_init_4bit
    \/ Seq_lcd_cursor_on \/ Seq_lcd_display_off \/ Seq_lcd_autoscroll_on
    \/ Seq_lcd_deinit
    \/ Malloc \/ Free \/ SleepMs \/ SleepUs
    \/ GpioInit \/ GpioInitMask \/ GpioSetDir \/ GpioSetDirOutMasked
    \/ GpioSetDirInMasked \/ GpioPut \/ GpioPutMasked \/ GpioGet
    \/ GpioSetFunction \/ GpioSetFunctionMasked
    \/ Return \/ Elapse

SpecLife == Init /\ [][NextLife]_vars

(***************************************************************************)
(* The read path.  No public operation calls _lcd_read_data, and           *)
(* _lcd_read_command is called only with R/W wired: here the two functions *)
(* are called on the handle init returned, after lcd_write_char of any     *)
(* byte or lcd_create_char has put a byte into the controller.             *)
(***************************************************************************)
Bytes == 0..255

Probe_lcd_write_char ==
    /\ calls = 0
    /\ \E c \in Bytes :
          SeqOp("lcd_write_char", [symbol |-> c], Ins("lcd_write_char", c, 0))

Probe_lcd_create_char ==
    /\ calls = 0
    /\ \E num \in CharNums, data \in Patterns :
          SeqOp("lcd_create_char", [data |-> data, num |-> num],
                Ins("lcd_create_char", num, data))

Probe_lcd_read_command ==
    /\ h # NULL
    /\ SeqOp("_lcd_read_command", <<>>, Ins("_lcd_read_command", 0, 0))

Probe_lcd_read_data ==
    /\ h # NULL
    /\ SeqOp("_lcd_read_data", <<>>, Ins("_lcd_read_data", 0, 0))

NextRead ==
    \/ Call_lcd_init_8bit \/ Call_lcd_init_4bit
    \/ Probe_lcd_write_char \/ Probe_lcd_create_char
    \/ Probe_lcd_read_command \/ Probe_lcd_read_data
    \/ Malloc \/ SleepMs \/ SleepUs
    \/ GpioInit \/ GpioInitMask \/ GpioSetDir \/ GpioSetDirOutMasked
    \/ GpioSetDirInMasked \/ GpioPut \/ GpioPutMasked \/ GpioGet
    \/ Return \/ Elapse

SpecRead == Init /\ [][NextRead]_vars

(***************************************************************************)
(* A controller that fails: between two calls of the caller its busy flag  *)
(* gets stuck and never clears.  It fails in a state in which the driver   *)
(* reads bit 7 of its status as bit 7: in the bus mode init has set up, or *)
(* before the first init in its power-on state (8-bit).                    *)
(***************************************************************************)
Stick ==
    /\ op.name = "idle"
    /\ h # NULL \/ ctrl.dl8
    /\ ctrl.busy # "stuck"
    /\ ctrl' = [ctrl EXCEPT !.busy = "stuck"]
    /\ UNCHANGED <<h, todo, reg, op, calls, inits, gpio, board, wlog, rdv,
                   nput, half, trail, lead, touched, bad>>

NextStuck == Next \/ Stick

SpecStuck == Init /\ [][NextStuck]_vars

(***************************************************************************)
(* The operations at the level of the command/data channel: a public       *)
(* operation runs from its call to its return in one step, against an      *)
(* idle controller, and reg.sent holds the calls of _lcd_send_command and  *)
(* _lcd_send_data it made.                                                 *)
(***************************************************************************)
\* The functions of the driver that only access GPIO and sleep.
BusOps == {"_lcd_write_8_bits", "_lcd_write_4_bits", "_lcd_init_pins",
           "_lcd_deinit_pins"}

\* Runs the program to its end.  env.mem: malloc returns an object;
\* env.status: the byte _lcd_read_command returns (busy flag clear).
RECURSIVE CmdRun(_, _, _, _)
CmdRun(prog, hh, rr, env) ==
    IF prog = <<>> THEN [h |-> hh, reg |-> rr]
    ELSE LET i == prog[1]
             r == Tail(prog)
         IN  IF i.op \in LocalOps
               THEN CmdRun(r, LocalH(i, hh), LocalReg(i, rr), env)
             ELSE IF i.op = "_lcd_send_command"
               THEN CmdRun(r, hh, LocalReg(Ins("sent", 0, i.a), rr), env)
             ELSE IF i.op = "_lcd_send_data"
               THEN CmdRun(r, hh, LocalReg(Ins("sent", 1, i.a), rr), env)
             ELSE IF i.op = "_lcd_read_command"
               THEN CmdRun(r, hh, [rr EXCEPT !.command = env.status], env)
             ELSE IF i.op = "malloc"
               THEN CmdRun(r, IF env.mem THEN FreshHandle ELSE NULL, rr, env)
             ELSE IF i.op = "free" THEN CmdRun(r, NULL, rr, env)
             ELSE IF i.op \in VisibleOps \cup BusOps THEN CmdRun(r, hh, rr, env)
             ELSE CmdRun(Body(i, hh, rr) \o r, hh, rr, env)

Env(status, mem) == [status |-> status, mem |-> mem]

CalcCall(name, args, prog, env) ==
    LET n == CmdRun(prog, h, FreshReg, env)
    IN  /\ op' = [name |-> name, args |-> args, h0 |-> h, c0 |-> env]
        /\ h' = n.h
        /\ reg' = n.reg
        /\ UNCHANGED <<gpio, board, ctrl, wlog, rdv, nput, half, trail, lead,
                       touched, bad, calls, inits>>

\* The controller is out of the picture: it starts in one state and stays.
InitCalc == Start /\ todo = <<>> /\ ctrl = [CtrlIdle EXCEPT !.busy = "reset"]

CalcGeometry == {<<16, 2, LCD_5x8DOTS>>, <<20, 4, LCD_5x8DOTS>>}
\* Status bytes with the busy flag clear.
CalcStatus == {0, 69}

CalcInit(name, body) ==
    /\ h = NULL
    /\ CalcCall(name, body[2].a, body, Env(0, TRUE))
    /\ UNCHANGED todo

Calc_lcd_init_8bit ==
    \E g \in CalcGeometry :
       CalcInit("lcd_init_8bit",
                lcd_init_8bit(g[1], g[2], g[3], board.rs, board.rw, board.en,
                              board.db))

Calc_lcd_init_4bit ==
    \E g \in CalcGeometry :
       CalcInit("lcd_init_4bit",
                lcd_init_4bit(g[1], g[2], g[3], board.rs, board.rw, board.en,
                              SubSeq(board.db, 5, 8)))

CalcOp(name, args, ins) ==
    /\ CalcCall(name, args, <<ins>>, Env(0, TRUE))
    /\ UNCHANGED todo

Calc_lcd_deinit == CalcOp("lcd_deinit", <<>>, Ins("lcd_deinit", 0, 0))
Calc_lcd_clear == CalcOp("lcd_clear", <<>>, Ins("lcd_clear", 0, 0))
Calc_lcd_home == CalcOp("lcd_home", <<>>, Ins("lcd_home", 0, 0))
Calc_lcd_display_off ==
    CalcOp("lcd_display_off", <<>>, Ins("lcd_display_off", 0, 0))
Calc_lcd_display_on ==
    CalcOp("lcd_display_on", <<>>, Ins("lcd_display_on", 0, 0))
Calc_lcd_blink_off == CalcOp("lcd_blink_off", <<>>, Ins("lcd_blink_off", 0, 0))
Calc_lcd_blink_on == CalcOp("lcd_blink_on", <<>>, Ins("lcd_blink_on", 0, 0))
Calc_lcd_cursor_off ==
    CalcOp("lcd_cursor_off", <<>>, Ins("lcd_cursor_off", 0, 0))
Calc_lcd_cursor_on == CalcOp("lcd_cursor_on", <<>>, Ins("lcd_cursor_on", 0, 0))
Calc_lcd_scroll_display_left ==
    CalcOp("lcd_scroll_display_left", <<>>, Ins("lcd_scroll_display_left", 0, 0))
Calc_lcd_scroll_display_right ==
    CalcOp("lcd_scroll_display_right", <<>>,
           Ins("lcd_scroll_display_right", 0, 0))
Calc_lcd_left_to_right ==
    CalcOp("lcd_left_to_right", <<>>, Ins("lcd_left_to_right", 0, 0))
Calc_lcd_right_to_left ==
    CalcOp("lcd_right_to_left", <<>>, Ins("lcd_right_to_left", 0, 0))
Calc_lcd_autoscroll_off ==
    CalcOp("lcd_autoscroll_off", <<>>, Ins("lcd_autoscroll_off", 0, 0))
Calc_lcd_autoscroll_on ==
    CalcOp("lcd_autoscroll_on", <<>>, Ins("lcd_autoscroll_on", 0, 0))

Calc_lcd_set_cursor ==
    \E cr \in CursorArgs, ub \in UbBytes :
       CalcOp("lcd_set_cursor", [row |-> cr[2], ub |-> ub, col |-> cr[1]],
              Ins("lcd_set_cursor", cr, ub))

Calc_lcd_write_char ==
    \E c \in Symbols :
       CalcOp("lcd_write_char", [symbol |-> c], Ins("lcd_write_char", c, 0))

Calc_lcd_write_string ==
    \E t \in Texts :
       CalcOp("lcd_write_string", [text |-> t], Ins("lcd_write_string", t, 0))

Calc_lcd_write_char_at ==
    \E c \in Symbols, cr \in CursorArgs, ub \in UbBytes :
       CalcOp("lcd_write_char_at",
              [row |-> cr[2], ub |-> ub, col |-> cr[1], symbol |-> c],
              Ins("lcd_write_char_at", <<c, cr[1], cr[2]>>, ub))

Calc_lcd_write_string_at ==
    \E t \in Texts, cr \in CursorArgs, ub \in UbBytes :
       CalcOp("lcd_write_string_at",
              [row |-> cr[2], ub |-> ub, col |-> cr[1], text |-> t],
              Ins("lcd_write_string_at", <<t, cr[1], cr[2]>>, ub))

Calc_lcd_create_char ==
    \E num \in CharNums, data \in Patterns, st \in CalcStatus :
       /\ CalcCall("lcd_create_char", [data |-> data, num |-> num],
                   <<Ins("lcd_create_char", num, data)>>, Env(st, TRUE))
       /\ UNCHANGED todo

NextCalc ==
    \/ Calc_lcd_init_8bit \/ Calc_lcd_init_4bit \/ Calc_lcd_deinit
    \/ Calc_lcd_clear \/ Calc_lcd_home
    \/ Calc_lcd_display_off \/ Calc_lcd_display_on
    \/ Calc_lcd_blink_off \/ Calc_lcd_blink_on
    \/ Calc_lcd_cursor_off \/ Calc_lcd_cursor_on
    \/ Calc_lcd_scroll_display_left \/ Calc_lcd_scroll_display_right
    \/ Calc_lcd_left_to_right \/ Calc_lcd_right_to_left
    \/ Calc_lcd_autoscroll_off \/ Calc_lcd_autoscroll_on
    \/ Calc_lcd_set_cursor \/ Calc_lcd_write_char \/ Calc_lcd_write_string
    \/ Calc_lcd_write_char_at \/ Calc_lcd_write_string_at
    \/ Calc_lcd_create_char

SpecCalc == InitCalc /\ [][NextCalc]_vars

(***************************************************************************)
(* Flag operations in a row, at the level of the command/data channel:     *)
(* after init, any sequence of the ten operations that change a cached     *)
(* flag byte.  op.c0.prev keeps the call before the running one: its name, *)
(* the handle it was called on and the bytes it sent.                      *)
(***************************************************************************)
EnvAfter(o, r) ==
    [status |-> 0, mem |-> TRUE,
     prev |-> [name |-> o.name, h0 |-> o.h0, sent |-> r.sent]]

Pair(name) ==
    /\ h # NULL
    /\ CalcCall(name, <<>>, <<Ins(name, 0, 0)>>, EnvAfter(op, reg))
    /\ UNCHANGED todo

Pair_lcd_display_off == Pair("lcd_display_off")
Pair_lcd_display_on == Pair("lcd_display_on")
Pair_lcd_blink_off == Pair("lcd_blink_off")
Pair_lcd_blink_on == Pair("lcd_blink_on")
Pair_lcd_cursor_off == Pair("lcd_cursor_off")
Pair_lcd_cursor_on == Pair("lcd_cursor_on")
Pair_lcd_left_to_right == Pair("lcd_left_to_right")
Pair_lcd_right_to_left == Pair("lcd_right_to_left")
Pair_lcd_autoscroll_off == Pair("lcd_autoscroll_off")
Pair_lcd_autoscroll_on == Pair("lcd_autoscroll_on")

NextToggle ==
    \/ Calc_lcd_init_8bit \/ Calc_lcd_init_4bit
    \/ Pair_lcd_display_off \/ Pair_lcd_display_on
    \/ Pair_lcd_blink_off \/ Pair_lcd_blink_on
    \/ Pair_lcd_cursor_off \/ Pair_lcd_cursor_on
    \/ Pair_lcd_left_to_right \/ Pair_lcd_right_to_left
    \/ Pair_lcd_autoscroll_off \/ Pair_lcd_autoscroll_on

SpecToggle == InitCalc /\ [][NextToggle]_vars

(***************************************************************************)
(* The address computations over the whole range of their uint8_t          *)
(* arguments.  The caller's program is an init followed by one call of     *)
(* lcd_set_cursor or lcd_create_char; todo holds the calls still to make,  *)
(* and each call runs at the level of the command/data channel.            *)
(***************************************************************************)
SweepRows == {0, 1, 2, 3, 4, 5, 255}
SweepCols == {0, 15}
SweepPatterns == {Smiley, <<1, 2, 4, 8, 16, 32, 64, 255>>}
\* What a read outside _row_offsets may yield on the handles of the sweep.
SweepUb == {0, 255}

\* The calls of init: every column count with two rows, and a range of row
\* counts with 16 columns and either font.
SweepInits ==
    LET geometry ==
          {<<c, 2, LCD_5x8DOTS>> : c \in 0..255}
          \cup {<<16, r, cs>> : r \in SweepRows,
                                cs \in {LCD_5x8DOTS, LCD_5x10DOTS}}
    IN  {Ins(name, g, 0) : name \in {"lcd_init_8bit", "lcd_init_4bit"},
                           g \in geometry}

\* What a read outside _row_offsets may yield on a handle of the sweep: the
\* read is outside the table only on a handle that init made with rows = 0.
SweepUbOf(i) == IF i.a[2] = 0 THEN SweepUb ELSE UbBytes

\* The programs that call init as i and then lcd_set_cursor with a column
\* of cols and a row of rows.
CursorProgramsOf(i, cols, rows) ==
    {<<i, Ins("lcd_set_cursor", <<col, row>>, ub)>> :
        col \in cols, row \in rows, ub \in SweepUbOf(i)}

\* Programs that end with lcd_set_cursor: every row argument on the handles
\* of 16 columns, the rows of the table on the others, and every column
\* argument with the rows of the table on the handles of 0 and of 4 rows.
CursorPrograms ==
    UNION {CursorProgramsOf(i, SweepCols, 0..255) :
              i \in {j \in SweepInits : j.a[1] = 16 /\ j.a[3] = LCD_5x8DOTS}}
    \cup UNION {CursorProgramsOf(i, SweepCols, 0..3) : i \in SweepInits}
    \cup UNION {CursorProgramsOf(i, 0..255, 0..3) :
                    i \in {j \in SweepInits : j.a \in {<<16, 0, LCD_5x8DOTS>>,
                                                       <<16, 4, LCD_5x8DOTS>>}}}

\* Programs that end with lcd_create_char, for every character index.
CreateCharPrograms ==
    {<<i, Ins("lcd_create_char", num, data)>> :
        i \in {j \in SweepInits : j.a = <<16, 2, LCD_5x8DOTS>>},
        num \in 0..255, data \in SweepPatterns}

InitAddr ==
    /\ Start
    /\ ctrl = [CtrlIdle EXCEPT !.busy = "reset"]
    /\ \/ todo \in CursorPrograms
       \/ todo \in CreateCharPrograms

\* The next call of the caller's program, run to its return.
Run(name, args, prog, env) ==
    /\ CalcCall(name, args, prog, env)
    /\ todo' = Tail(todo)

Run_lcd_init_8bit ==
    /\ Running("lcd_init_8bit")
    /\ LET g == todo[1].a
           body == lcd_init_8bit(g[1], g[2], g[3], board.rs, board.rw,
                                 board.en, board.db)
       IN  Run("lcd_init_8bit", body[2].a, body, Env(0, TRUE))

Run_lcd_init_4bit ==
    /\ Running("lcd_init_4bit")
    /\ LET g == todo[1].a
           body == lcd_init_4bit(g[1], g[2], g[3], board.rs, board.rw,
                                 board.en, SubSeq(board.db, 5, 8))
       IN  Run("lcd_init_4bit", body[2].a, body, Env(0, TRUE))

Run_lcd_set_cursor ==
    /\ Running("lcd_set_cursor")
    /\ Run("lcd_set_cursor",
           [row |-> todo[1].a[2], ub |-> todo[1].b, col |-> todo[1].a[1]],
           <<todo[1]>>, Env(0, TRUE))

Run_lcd_create_char ==
    /\ Running("lcd_create_char")
    /\ \E st \in CalcStatus :
          Run("lcd_create_char", [data |-> todo[1].b, num |-> todo[1].a],
              <<todo[1]>>, Env(st, TRUE))

NextAddr ==
    \/ Run_lcd_init_8bit \/ Run_lcd_init_4bit
    \/ Run_lcd_set_cursor \/ Run_lcd_create_char

SpecAddr == InitAddr /\ [][NextAddr]_vars

(***************************************************************************)
(* Properties                                                              *)
(***************************************************************************)
IsChannel(e) == e.via # "raw"
IsData(e) == e.rs = 1

\* The write transfers of the running operation made inside
\* _lcd_send_command and _lcd_send_data.
ChannelWrites == SelectSeq(wlog, IsChannel)

\* The handle the running operation works on.
Handle == IF h = NULL THEN op.h0 ELSE h

InitNames == {"lcd_init_8bit", "lcd_init_4bit"}

\* What a write transfer is on the wire.
Wire(e) == [rs |-> e.rs, val |-> e.val, w |-> e.w, via |-> e.via]

\* The write transfers a byte takes on a bus of w lines.
ByteOnWire(s, w) ==
    LET via == IF s.rs = 0 THEN "cmd" ELSE "data"
    IN  IF w = 8
          THEN <<[rs |-> s.rs, val |-> s.b, w |-> 8, via |-> via]>>
          ELSE <<[rs |-> s.rs, val |-> s.b \div 16, w |-> 4, via |-> via],
                 [rs |-> s.rs, val |-> s.b % 16, w |-> 4, via |-> via]>>

RECURSIVE BytesOnWire(_, _)
BytesOnWire(sent, w) ==
    IF sent = <<>> THEN <<>>
    ELSE ByteOnWire(sent[1], w) \o BytesOnWire(Tail(sent), w)

\* The bytes that the write transfers ws carry on a bus of w lines (a
\* nibble without its second half is left out).
RECURSIVE Assemble(_, _)
Assemble(ws, w) ==
    IF ws = <<>> THEN <<>>
    ELSE IF w = 8
      THEN <<[rs |-> ws[1].rs, b |-> ws[1].val]>> \o Assemble(Tail(ws), w)
    ELSE IF Len(ws) = 1 THEN <<>>
    ELSE <<[rs |-> ws[1].rs, b |-> 16 * ws[1].val + ws[2].val]>>
         \o Assemble(Tail(Tail(ws)), w)

IsPrefix(s, t) == Len(s) <= Len(t) /\ s = SubSeq(t, 1, Len(s))

\* C1: every byte passed to _lcd_send_command or _lcd_send_data goes over
\* the bus as two 4-bit write transfers in 4-bit mode, the high nibble and
\* then the low nibble, and as one 8-bit write transfer in 8-bit mode, with
\* RS low for a command and high for data in each transfer; the channel
\* functions make no other write transfer.
C1_ByteTransfers ==
    Len(reg.sent) > 0 =>
       LET cw == [i \in 1..Len(ChannelWrites) |-> Wire(ChannelWrites[i])]
           ex == BytesOnWire(reg.sent, BusWidth(Handle))
       IN  /\ IsPrefix(cw, ex)
           /\ reg.via = "raw" => Len(cw) = Len(ex)

\* C1 witness: lcd_write_char has returned on a 4-bit handle, its byte sent
\* as two transfers.
C1_Witness ==
    /\ op.name = "lcd_write_char"
    /\ h # NULL
    /\ ~EightBit(h)
    /\ todo = <<>>
    /\ Len(reg.sent) = 1
    /\ Len(ChannelWrites) = 2

\* C2: during lcd_init_8bit the first three write transfers are made
\* outside the channel functions, 8 bits wide with RS low, carry the
\* function-set byte, follow no read transfer and are each followed by at
\* least 5 ms of sleep before the next GPIO access; the fourth write
\* transfer is the function-set command of _lcd_send_command, and no later
\* write transfer is made outside the channel functions.
C2_Handshake8 ==
    (op.name = "lcd_init_8bit" /\ h # NULL) =>
       \A i \in 1..Len(wlog) :
          /\ i <= 3 =>
                /\ wlog[i].via = "raw"
                /\ wlog[i].rs = 0
                /\ wlog[i].w = 8
                /\ wlog[i].val = Or(LCD_FUNCTIONSET, h._displayfunction)
                /\ wlog[i].val \div 16 = 3
                /\ wlog[i].pre = <<>>
                /\ i < Len(wlog) => wlog[i].gap >= 5000
          /\ i > 3 => wlog[i].via # "raw"
          /\ i = 4 =>
                /\ wlog[i].via = "cmd"
                /\ wlog[i].val = Or(LCD_FUNCTIONSET, h._displayfunction)

\* C2 witness: lcd_init_8bit has made the function-set transfer of the
\* command channel.
C2_Witness == op.name = "lcd_init_8bit" /\ h # NULL /\ Len(wlog) = 4

\* C3: during lcd_init_4bit the first four write transfers are made
\* outside the channel functions, 4 bits wide with RS low, carry 3, 3, 3
\* and 2, follow no read transfer and are each followed by at least 5 ms of
\* sleep before the next GPIO access; the fifth and sixth write transfers
\* are the two nibbles of the function-set command of _lcd_send_command,
\* and no later write transfer is made outside the channel functions.
C3_Handshake4 ==
    (op.name = "lcd_init_4bit" /\ h # NULL) =>
       \A i \in 1..Len(wlog) :
          /\ i <= 4 =>
                /\ wlog[i].via = "raw"
                /\ wlog[i].rs = 0
                /\ wlog[i].w = 4
                /\ wlog[i].val = <<3, 3, 3, 2>>[i]
                /\ wlog[i].pre = <<>>
                /\ i < Len(wlog) => wlog[i].gap >= 5000
          /\ i > 4 => wlog[i].via # "raw"
          /\ i = 5 =>
                /\ wlog[i].via = "cmd"
                /\ wlog[i].val = Or(LCD_FUNCTIONSET, h._displayfunction) \div 16
                /\ wlog[i].val = 2
          /\ i = 6 =>
                /\ wlog[i].via = "cmd"
                /\ wlog[i].val = Or(LCD_FUNCTIONSET, h._displayfunction) % 16
                /\ wlog[i].pre = <<>>

\* C3 witness: lcd_init_4bit has made both transfers of the function-set
\* command.
C3_Witness == op.name = "lcd_init_4bit" /\ h # NULL /\ Len(wlog) = 6

\* The pins of the handle's lines other than Enable.
LinePins ==
    h._data_pins_mask \cup {h._rs_pin}
    \cup (IF h._rw_pin # RW_UNUSED THEN {h._rw_pin} ELSE {})

\* The commands of a successful init, fs its function-set byte.
InitCommands(fs) ==
    <<[rs |-> 0, b |-> fs], [rs |-> 0, b |-> 12], [rs |-> 0, b |-> 6],
      [rs |-> 0, b |-> 1], [rs |-> 0, b |-> 2]>>

\* C4: a successful init sleeps at least 40 ms before its first GPIO
\* access; when Enable rises for the first time every data line, RS and a
\* wired R/W are outputs driven low and Enable is an output; the write
\* transfers made outside the channel functions all come before those of
\* the channel; the bytes on the wire of the command channel are, in this
\* order, function set (with the bus width of the init called), 0x0C, 0x06,
\* 0x01 and 0x02, all with RS low; and at the return the handle holds
\* _displaycontrol = 0x04 and _displaymode = 0x02.
C4_InitOrder ==
    (op.name \in InitNames /\ h # NULL) =>
       /\ touched => lead >= 40000
       /\ (wlog = <<>> /\ Lines(gpio, board).e = 1 /\ nput = 0) =>
             /\ \A p \in LinePins :
                   gpio[p] = [fn |-> "sio", oe |-> 1, out |-> 0]
             /\ gpio[h._enable_pin].fn = "sio"
             /\ gpio[h._enable_pin].oe = 1
       /\ \A i, j \in 1..Len(wlog) :
             (i < j /\ wlog[j].via = "raw") => wlog[i].via = "raw"
       /\ Len(ChannelWrites) > 0 =>
             LET bytes == Assemble(ChannelWrites, BusWidth(h))
                 fs == 32 + (IF op.name = "lcd_init_8bit" THEN 16 ELSE 0)
                       + (h._displayfunction % 16)
             IN  /\ IsPrefix(bytes, InitCommands(fs))
                 /\ todo = <<>> => bytes = InitCommands(fs)
       /\ todo = <<>> =>
             /\ Len(ChannelWrites) > 0
             /\ h._displaycontrol = 4
             /\ h._displaymode = 2

\* C4 witness: a successful init is about to return.
C4_Witness ==
    /\ op.name \in InitNames
    /\ h # NULL
    /\ todo = <<>>
    /\ Len(Assemble(ChannelWrites, BusWidth(h))) = 5

\* The status byte of the read transfers pre, made on w lines, has the busy
\* flag clear.
ReadyStatus(pre, w) ==
    /\ Len(pre) = 8 \div w
    /\ \A k \in 1..Len(pre) : pre[k].rs = 0
    /\ (IF w = 8 THEN pre[1].val ELSE 16 * pre[1].val + pre[2].val) < 128

\* C5: with R/W wired, the first write transfer of every byte of
\* _lcd_send_command and _lcd_send_data comes after a read of the status
\* byte (RS low) that shows the busy flag clear, with no write transfer
\* between that read and it; and the controller never latches a write
\* while it executes an instruction.
C5_WriteWhenReady ==
    (board.rw # RW_UNUSED /\ Len(wlog) > 0) =>
       /\ ~ctrl.overrun
       /\ \A k \in 1..Len(ChannelWrites) :
             (ChannelWrites[k].w = 8 \/ k % 2 = 1) =>
                ReadyStatus(ChannelWrites[k].pre, ChannelWrites[k].w)

\* C5 witness: with R/W wired lcd_write_string has sent its second
\* character, right after the first.
C5_Witness ==
    /\ board.rw # RW_UNUSED
    /\ op.name = "lcd_write_string"
    /\ h # NULL
    /\ todo = <<>>
    /\ Len(reg.sent) = 2
    /\ Len(Assemble(ChannelWrites, BusWidth(h))) = 2

\* The ten flag operations: the cached byte, the opcode of its command,
\* the flag and whether the operation sets it.
Toggle(f, opc, flag, set) == [f |-> f, opc |-> opc, flag |-> flag, set |-> set]

Toggles ==
    [lcd_display_off |-> Toggle("_displaycontrol", 8, 4, FALSE),
     lcd_display_on |-> Toggle("_displaycontrol", 8, 4, TRUE),
     lcd_cursor_off |-> Toggle("_displaycontrol", 8, 2, FALSE),
     lcd_cursor_on |-> Toggle("_displaycontrol", 8, 2, TRUE),
     lcd_blink_off |-> Toggle("_displaycontrol", 8, 1, FALSE),
     lcd_blink_on |-> Toggle("_displaycontrol", 8, 1, TRUE),
     lcd_left_to_right |-> Toggle("_displaymode", 4, 2, TRUE),
     lcd_right_to_left |-> Toggle("_displaymode", 4, 2, FALSE),
     lcd_autoscroll_off |-> Toggle("_displaymode", 4, 1, FALSE),
     lcd_autoscroll_on |-> Toggle("_displaymode", 4, 1, TRUE)]

\* Byte new is byte old with the bit flag set (or cleared) and every other
\* bit as it was.
OneBitChanged(old, new, flag, set) ==
    \A i \in 0..7 :
       Bit(new, i) = IF Pow2(i) = flag THEN (IF set THEN 1 ELSE 0)
                     ELSE Bit(old, i)

\* C6: a flag operation on a handle sends exactly one command; its byte has
\* the bits of the opcode (0x08 or 0x04) and of the cached byte in which the
\* flag is set or cleared and every other bit is as cached before the call;
\* the handle caches that byte and the other cached byte is unchanged.
C6_ToggleByte ==
    (op.name \in DOMAIN Toggles /\ op.h0 # NULL) =>
       LET t == Toggles[op.name]
           old == op.h0[t.f]
           new == h[t.f]
       IN  /\ Len(reg.sent) = 1
           /\ reg.sent[1].rs = 0
           /\ OneBitChanged(old, new, t.flag, t.set)
           /\ new < t.opc
           /\ reg.sent[1].b = t.opc + new
           /\ h = [op.h0 EXCEPT ![t.f] = new]

\* C6 witness: lcd_cursor_on has run on a handle whose blink flag was on and
\* whose display flag was off.
C6_Witness ==
    /\ op.name = "lcd_cursor_on"
    /\ op.h0 # NULL
    /\ op.h0._displaycontrol = 1
    /\ h._displaycontrol = 3

Min(a, b) == IF a < b THEN a ELSE b

\* C7: on a handle with _numlines >= 1, lcd_set_cursor(col, row) sends one
\* command, 0x80 | (col + _row_offsets[min(row, _numlines - 1, 3)]) as a
\* uint8_t, for every row 0..255.
C7_RowClamp ==
    (op.name = "lcd_set_cursor" /\ op.h0 # NULL /\ op.h0._numlines >= 1) =>
       LET col == op.args.col
           row == op.args.row
           index == Min(Min(row, op.h0._numlines - 1), 3)
       IN  reg.sent = <<[rs |-> 0,
                         b |-> Or(128, col + op.h0._row_offsets[index + 1])
                               % 256]>>

\* C7 witness: lcd_set_cursor with row 200 on a handle of five lines.
C7_Witness ==
    /\ op.name = "lcd_set_cursor"
    /\ op.h0 # NULL
    /\ op.h0._numlines = 5
    /\ op.args.row = 200
    /\ Len(reg.sent) = 1

\* C8 as claimed: after init with cols columns the row-offset table is
\* [0x00, 0x40, 0x00 + cols, 0x40 + cols].
C8_OffsetsUnbounded ==
    (op.name \in InitNames /\ h # NULL) =>
       h._row_offsets = <<0, 64, op.args.cols, 64 + op.args.cols>>

\* C8 amended: after init with cols columns (0..255) the row-offset table
\* is [0x00, 0x40, cols, (0x40 + cols) mod 256]; with cols = 16 it is
\* [0x00, 0x40, 0x10, 0x50], and on a handle of two lines with that table
\* lcd_set_cursor(0, 1) sends the single command 0xC0.
C8_Offsets ==
    /\ (op.name \in InitNames /\ h # NULL) =>
          /\ h._row_offsets =
                <<0, 64, op.args.cols, (64 + op.args.cols) % 256>>
          /\ op.args.cols = 16 => h._row_offsets = <<0, 64, 16, 80>>
    /\ (/\ op.name = "lcd_set_cursor"
        /\ op.h0 # NULL
        /\ op.h0._numlines = 2
        /\ op.h0._row_offsets = <<0, 64, 16, 80>>
        /\ op.args.col = 0
        /\ op.args.row = 1) =>
          reg.sent = <<[rs |-> 0, b |-> 192]>>

\* C8 witness: init with 200 columns has returned, the last entry of the
\* table wrapped around.
C8_Witness ==
    /\ op.name \in InitNames
    /\ h # NULL
    /\ op.args.cols = 200
    /\ h._row_offsets[4] = 8

\* C9: lcd_create_char(num, data) on a handle sends, for i = 0..7 in this
\* order, the command 0x40 + (num mod 8) * 8 + i, which is in 0x40..0x7F,
\* and right after it the data byte data[i]; it sends 8 data bytes in all
\* and nothing else but, with R/W wired, one last command.
C9_CreateCharWrites ==
    (op.name = "lcd_create_char" /\ op.h0 # NULL) =>
       LET num == op.args.num
           data == op.args.data
           s == reg.sent
       IN  /\ Len(s) = 16 + (IF board.rw # RW_UNUSED THEN 1 ELSE 0)
           /\ \A i \in 0..7 :
                 /\ s[2 * i + 1] = [rs |-> 0, b |-> 64 + (num % 8) * 8 + i]
                 /\ s[2 * i + 1].b \in 64..127
                 /\ s[2 * i + 2] = [rs |-> 1, b |-> data[i + 1]]
           /\ Len(SelectSeq(s, IsData)) = 8

\* C9 witness: lcd_create_char with index 255 on a handle without R/W.
C9_Witness ==
    /\ op.name = "lcd_create_char"
    /\ op.h0 # NULL
    /\ op.args.num = 255
    /\ board.rw = RW_UNUSED
    /\ Len(reg.sent) = 16

\* The controller once the instruction it executes has completed.
Settled(c) == IF c.busy # "no" THEN Complete(c) ELSE c

\* C10: with R/W wired, when lcd_create_char returns its last command is
\* set-DDRAM-address and the DDRAM address at which the controller stores
\* the byte of a following lcd_write_char is the one at which it would have
\* stored it had lcd_write_char been called in the place of
\* lcd_create_char.
C10_CursorRestored ==
    (/\ op.name = "lcd_create_char"
     /\ op.h0 # NULL
     /\ board.rw # RW_UNUSED
     /\ todo = <<>>) =>
       /\ reg.sent[Len(reg.sent)].rs = 0
       /\ reg.sent[Len(reg.sent)].b >= 128
       /\ ~Settled(ctrl).cg
       /\ Settled(ctrl).ac = Settled(op.c0).ac

WriteAtBytes ==
    LET text == IF op.name = "lcd_write_string_at"
                  THEN op.args.text ELSE <<op.args.symbol>>
        row  == Min(Min(op.args.row, op.h0._numlines - 1), max_lines - 1)
        cmd  == LCD_SETDDRAMADDR + op.args.col + op.h0._row_offsets[row + 1]
    IN  <<[rs |-> 0, b |-> cmd]>>
        \o [i \in 1..Len(text) |-> [rs |-> 1, b |-> text[i]]]

\* C12: the write transfers of lcd_write_string_at(text, col, row) carry, in
\* this order and with nothing else between or after them, the set-cursor
\* command of (col, row) and the len(text) data bytes text[0..len-1], all
\* through the channel (status reads may come between them); for the empty
\* text they carry the set-cursor command alone.  Those of
\* lcd_write_char_at carry the set-cursor command and one data byte.
C12_WriteAt ==
    (op.name \in {"lcd_write_string_at", "lcd_write_char_at"}
       /\ op.h0 # NULL) =>
       LET got == Assemble(wlog, BusWidth(op.h0))
       IN  /\ IsPrefix(got, WriteAtBytes)
           /\ todo = <<>> => got = WriteAtBytes
           /\ \A i \in 1..Len(wlog) : wlog[i].via # "raw"

\* lcd_write_string_at has returned after a text of two characters, with
\* status reads before its last byte.
C12_Witness ==
    /\ op.name = "lcd_write_string_at"
    /\ op.h0 # NULL
    /\ todo = <<>>
    /\ Len(op.args.text) = 2
    /\ Len(Assemble(wlog, BusWidth(op.h0))) = 3
    /\ wlog[Len(wlog)].pre # <<>>

\* The SDK calls that give a line up, and free.
ReleaseOps == {"gpio_set_function", "gpio_set_function_masked", "free"}

\* C13: lcd_deinit on a valid handle, whatever its cached flag bytes, puts
\* on the bus the commands 0x01, 0x02 and a display-control command with
\* the display-on bit clear, in this order and nothing else; it gives up a
\* line only after the three commands, makes no other call once it has
\* given up a line, and returns NULL with every line of the handle given
\* up.  Called with NULL it returns NULL.
C13_Deinit ==
    op.name = "lcd_deinit" =>
       IF op.h0 = NULL THEN h = NULL /\ todo = <<>>
       ELSE LET got == Assemble(wlog, BusWidth(op.h0))
                off == [rs |-> 0,
                        b |-> LCD_DISPLAYCONTROL
                              + And(op.h0._displaycontrol, 255 - LCD_DISPLAYON)]
                released == \E p \in HandleLines(op.h0) : gpio[p].fn = "null"
            IN  /\ IsPrefix(got, <<[rs |-> 0, b |-> LCD_CLEARDISPLAY],
                                   [rs |-> 0, b |-> LCD_RETURNHOME], off>>)
                /\ Bit(off.b, 2) = 0
                /\ released =>
                     /\ Len(got) = 3
                     /\ \A i \in 1..Len(todo) : todo[i].op \in ReleaseOps
                /\ todo = <<>> =>
                     /\ h = NULL
                     /\ \A p \in HandleLines(op.h0) : gpio[p].fn = "null"

\* lcd_deinit has returned on a handle whose cursor was switched on.
C13_Witness ==
    /\ op.name = "lcd_deinit"
    /\ op.h0 # NULL
    /\ op.h0._displaycontrol = LCD_DISPLAYON + LCD_CURSORON
    /\ todo = <<>>
    /\ h = NULL
    /\ Assemble(wlog, BusWidth(op.h0))[3].b = LCD_DISPLAYCONTROL + LCD_CURSORON

\* C14: a public operation other than the init functions, called with a
\* NULL handle, has nothing to execute: it makes no GPIO call and no sleep,
\* leaves the handle NULL, the lines and the controller as they were, and
\* returns.
C14_NullHandle ==
    (op.name \notin InitNames \cup {"idle"} /\ op.h0 = NULL) =>
       /\ todo = <<>>
       /\ h = NULL
       /\ ~touched
       /\ lead = 0
       /\ wlog = <<>>
       /\ rdv = <<>>
       /\ reg.sent = <<>>
       /\ ctrl = op.c0

\* lcd_clear has been called with NULL.
C14_Witness == op.name = "lcd_clear" /\ op.h0 = NULL /\ todo = <<>>

\* C15: an init function whose malloc returns NULL returns NULL with no
\* sleep, no GPIO call and no byte sent; one whose malloc returns an object
\* keeps it to the return, which it reaches only after the 50 ms wait, the
\* configuration of the lines and the five commands of the sequence.
C15_InitAlloc ==
    op.name \in InitNames =>
       /\ h = NULL =>
            /\ todo = <<>> \/ todo[1].op = "malloc"
            /\ ~touched
            /\ lead = 0
            /\ wlog = <<>>
            /\ reg.sent = <<>>
            /\ ctrl = op.c0
       /\ h # NULL /\ todo = <<>> =>
            /\ lead = 50000
            /\ \A p \in HandleLines(h) : gpio[p].fn = "sio"
            /\ reg.sent = InitCommands(Or(LCD_FUNCTIONSET, h._displayfunction))

\* An init function has returned NULL: its malloc failed.
C15_Witness == op.name \in InitNames /\ h = NULL /\ todo = <<>>

\* What the driver executes to read from the controller.
ReadOps ==
    {"while_lcd_busy", "if_lcd_busy", "_lcd_busy", "_lcd_read_command",
     "_lcd_read_data", "_lcd_read_8_bits", "_lcd_read_4_bits", "gpio_get",
     "gpio_set_dir_in_masked"}

\* The SDK calls that take one pin.
OnePinOps ==
    {"gpio_init", "gpio_set_dir", "gpio_put", "gpio_get", "gpio_set_function"}

\* C16: on a board without R/W (pin value 255) nothing the driver executes
\* or has yet to execute polls the busy flag, reads from the controller or
\* makes the data lines inputs, no read transfer is on the bus, no call
\* names pin 255, and every write transfer is followed by at least 100 us
\* of sleep before the next GPIO call or the return.
C16_Unwired ==
    board.rw = RW_UNUSED =>
       /\ \A i \in 1..Len(todo) : todo[i].op \notin ReadOps
       /\ rdv = <<>>
       /\ \A i \in 1..Len(wlog) : wlog[i].pre = <<>>
       /\ bad = {}
       /\ todo # <<>> /\ todo[1].op \in OnePinOps => todo[1].a # RW_UNUSED
       /\ h # NULL => RW_UNUSED \notin h._data_pins_mask
       /\ \A i \in 1..Len(wlog) :
             (i < Len(wlog) \/ ~trail \/ todo = <<>>) => wlog[i].gap >= 100

\* lcd_write_string has returned on a board without R/W, two bytes sent,
\* each followed by the fixed delay.
C16_Witness ==
    /\ board.rw = RW_UNUSED
    /\ op.name = "lcd_write_string"
    /\ op.h0 # NULL
    /\ todo = <<>>
    /\ Len(reg.sent) = 2
    /\ wlog[Len(wlog)].gap = 100

\* C17: every call of a public operation returns: on a board without R/W
\* whatever the controller does, on a board with R/W when the controller
\* does not stay busy for ever.
C17_Returns == (op.name # "idle") ~> (op.name = "idle")

\* The driver has read a set busy flag and sleeps in the loop that polls it.
C17_Witness ==
    /\ board.rw # RW_UNUSED
    /\ todo # <<>>
    /\ todo[1].op = "sleep_us"
    /\ todo[1].a = 3
    /\ And(reg.command, 128) # 0

\* The function-set command of a returned init: the first command sent
\* through the channel.
FunctionSet == reg.sent[1].b

\* C18 as stated: the function-set command of init has its bus-width bit
\* (0x10) set exactly for lcd_init_8bit, its 2-line bit (0x08) set exactly
\* when rows > 1 and its font bit (0x04) set exactly when charsize is
\* LCD_5x10DOTS, for every combination of rows and charsize.
C18_FunctionSetAnyRows ==
    (op.name \in InitNames /\ h # NULL) =>
       /\ reg.sent[1].rs = 0
       /\ FunctionSet \div 32 = 1
       /\ Bit(FunctionSet, 4) = 1 <=> op.name = "lcd_init_8bit"
       /\ Bit(FunctionSet, 3) = 1 <=> op.args.rows > 1
       /\ Bit(FunctionSet, 2) = 1 <=> op.args.charsize = LCD_5x10DOTS

\* C18, amended: the font bit (0x04) is set exactly when charsize is
\* LCD_5x10DOTS and rows = 1; the bus-width bit and the 2-line bit are as
\* stated.
C18_FunctionSet ==
    (op.name \in InitNames /\ h # NULL) =>
       /\ reg.sent[1].rs = 0
       /\ FunctionSet \div 32 = 1
       /\ Bit(FunctionSet, 4) = 1 <=> op.name = "lcd_init_8bit"
       /\ Bit(FunctionSet, 3) = 1 <=> op.args.rows > 1
       /\ Bit(FunctionSet, 2) = 1 <=>
             op.args.charsize = LCD_5x10DOTS /\ op.args.rows = 1
       /\ h._displayfunction = FunctionSet % 32

\* An init with two rows and the 5x10 font has returned, the font bit of
\* its function-set command clear.
C18_Witness ==
    /\ op.name = "lcd_init_4bit"
    /\ h # NULL
    /\ op.args.rows = 2
    /\ op.args.charsize = LCD_5x10DOTS
    /\ FunctionSet = LCD_FUNCTIONSET + LCD_2LINE

\* The SDK calls that take a mask of pins.
MaskOps ==
    {"gpio_init_mask", "gpio_set_dir_out_masked", "gpio_set_dir_in_masked",
     "gpio_put_masked", "gpio_set_function_masked"}

\* The pins the SDK call i names.
GpioPins(i) ==
    IF i.op \in OnePinOps THEN {i.a}
    ELSE IF i.op \in MaskOps THEN i.a
    ELSE {}

\* The running operation works on a 4-bit handle.
FourBit ==
    IF op.name \in InitNames THEN ~op.args.eightbitmode
    ELSE op.h0 # NULL /\ ~EightBit(op.h0)

\* A step of the running operation leaves every line it does not own as it
\* was.
OtherLinesKept ==
    Step => \A p \in Pins \ OwnLines : gpio'[p] = gpio[p]

\* The state part of C19.
OwnLinesOnly ==
    /\ todo # <<>> => GpioPins(todo[1]) \subseteq OwnLines
    /\ op.name # "idle" =>
          /\ Cardinality(OwnLines \cap {LCD_D[i] : i \in 1..8})
                \in {0, IF FourBit THEN 4 ELSE 8}
          /\ FourBit => OwnLines \cap {LCD_D[i] : i \in 1..4} = {}
    /\ Len(reg.sent) > 0 =>
          LET cw == [i \in 1..Len(ChannelWrites) |-> Wire(ChannelWrites[i])]
              ex == BytesOnWire(reg.sent, BusWidth(Handle))
          IN  /\ IsPrefix(cw, ex)
              /\ reg.via = "raw" => Len(cw) = Len(ex)
    /\ (op.name \in InitNames /\ h # NULL /\ todo = <<>>) =>
          /\ h._displaycontrol = LCD_DISPLAYON
          /\ h._displaymode = LCD_ENTRYLEFT
          /\ reg.sent = InitCommands(Or(LCD_FUNCTIONSET, h._displayfunction))

SioPins == {p \in Pins : gpio[p].fn = "sio"}

\* C20: at the return of init the configured pins are the lines of the
\* handle (the data lines of the mask, RS, Enable, and R/W exactly when
\* wired), and they stay so until deinit; deinit gives up these pins and no
\* other, and at its return no pin is configured and there is no handle.  An
\* init that follows, in either bus mode, returns a handle with the default
\* flag bytes and the bus width it was called for, whatever the flags of
\* the handle before.
C20_Release ==
    /\ (op.name # "idle" /\ todo = <<>> /\ h # NULL) =>
          /\ SioPins = HandleLines(h)
          /\ op.name \in InitNames =>
                /\ HandleLines(h) = OwnLines
                /\ EightBit(h) = op.args.eightbitmode
                /\ Cardinality(h._data_pins_mask)
                      = (IF op.args.eightbitmode THEN 8 ELSE 4)
                /\ (op.args.rw \in HandleLines(h)) = (board.rw # RW_UNUSED)
                /\ h._displaycontrol = LCD_DISPLAYON
                /\ h._displaymode = LCD_ENTRYLEFT
    /\ (op.name = "lcd_deinit" /\ op.h0 # NULL) =>
          /\ (todo # <<>> /\ todo[1].op \in ReleaseOps \ {"free"}) =>
                GpioPins(todo[1]) \subseteq HandleLines(op.h0)
          /\ SioPins \subseteq HandleLines(op.h0)
          /\ todo = <<>> => h = NULL /\ SioPins = {}
    /\ (h = NULL /\ op.name \notin InitNames \cup {"lcd_deinit"}) =>
          SioPins = {}

\* The second init has returned a handle in 8-bit mode, called when the
\* controller had last executed the display-off command of the deinit of a
\* 4-bit handle whose cursor was switched on.
C20_Witness ==
    /\ inits = 2
    /\ op.name = "lcd_init_8bit"
    /\ todo = <<>>
    /\ h # NULL
    /\ ~op.c0.dl8
    /\ op.c0.last = [rs |-> 0, b |-> LCD_DISPLAYCONTROL + LCD_CURSORON]
    /\ Cardinality(SioPins) \in {10, 11}

\* Enable is high.
EnableHigh == Level(gpio, board.en) = 1

\* The level the next gpio_put on Enable in t sets, -1 when t has none.
RECURSIVE NextEnablePut(_)
NextEnablePut(t) ==
    IF t = <<>> THEN -1
    ELSE IF t[1].op = "gpio_put" /\ t[1].a = board.en THEN t[1].b
    ELSE NextEnablePut(Tail(t))

\* The argument of the k-th write transfer of the channel functions:
\* _lcd_write_8_bits(byte), or _lcd_write_4_bits(byte >> 4) and then
\* _lcd_write_4_bits(byte).
ChannelInput(k) ==
    IF BusWidth(Handle) = 8 THEN reg.sent[k].b
    ELSE IF k % 2 = 1 THEN reg.sent[(k + 1) \div 2].b \div 16
    ELSE reg.sent[k \div 2].b

\* The data lines of the handle are all outputs.
BusIsOutput ==
    \A p \in Handle._data_pins_mask : gpio[p].fn = "sio" /\ gpio[p].oe = 1

\* C21: a write transfer of width w (4 or 8) is one pulse of Enable: the
\* next level the driver gives Enable is the other one (the pin setup of
\* init apart, which drives it low first), the w data lines are
\* each written once while it is high, and at its falling edge data line i
\* (i < w) holds bit i of the argument, the bits of the argument from w on
\* having no effect (a 4-bit handle never drives DB0..DB3); before Enable
\* rises for a write R/W is low and the data lines are outputs, also after
\* a read has left R/W high and the data lines inputs.
C21_WriteTransfer ==
    Handle # NULL /\ Handle._displayfunction # Undef =>
       LET w == BusWidth(Handle)
       IN  /\ \A k \in 1..Len(wlog) : wlog[k].w = w
           /\ \A k \in 1..Len(ChannelWrites) :
                 /\ k <= Len(reg.sent) * (8 \div w)
                 /\ \A i \in 0..(w - 1) :
                       Bit(ChannelWrites[k].val, i) = Bit(ChannelInput(k), i)
           /\ reg.via = "raw" =>
                 Len(ChannelWrites) = Len(reg.sent) * (8 \div w)
           /\ w = 4 => \A i \in 1..4 : Level(gpio, board.db[i]) = 0
           /\ EnableHigh => NextEnablePut(todo) = 0
           /\ (~EnableHigh /\ NextEnablePut(todo) = 0) =>
                 /\ op.name \in InitNames
                 /\ wlog = <<>>
                 /\ \E i \in 1..Len(todo) : todo[i].op = "_lcd_setup"
           /\ (todo # <<>> /\ todo[1].op = "gpio_put"
                 /\ todo[1].a \in Handle._data_pins_mask) =>
                 EnableHigh /\ Lines(gpio, board).rw = 0 /\ BusIsOutput
           /\ (Len(todo) >= 3 /\ todo[1].op = "gpio_put"
                 /\ todo[1].a = board.en /\ todo[1].b = 1
                 /\ todo[3].op = "gpio_put") =>
                 Lines(gpio, board).rw = 0 /\ BusIsOutput
           /\ (EnableHigh /\ Lines(gpio, board).rw = 0) => BusIsOutput

\* lcd_write_char has returned on a 4-bit handle with R/W wired: the second
\* transfer, of the whole byte 0x41, put 1 on the four lines, and the first
\* followed a status read.
C21_Witness ==
    /\ op.name = "lcd_write_char"
    /\ h # NULL
    /\ ~EightBit(h)
    /\ todo = <<>>
    /\ op.args.symbol >= 16
    /\ Len(wlog) = 2
    /\ wlog[2].val = op.args.symbol % 16
    /\ wlog[1].pre # <<>>

\* The two read functions of the channel.
ReadNames == {"_lcd_read_command", "_lcd_read_data"}

\* The data lines of the handle are all inputs.
BusIsInput == \A p \in Handle._data_pins_mask : gpio[p].oe = 0

\* The byte the controller presented in its last read.
Presented == IF ctrl.dl8 THEN ctrl.dout ELSE ctrl.rdl

\* C22: with R/W wired, R/W is high only while the data lines are inputs;
\* Enable is raised for a read with R/W high; gpio_get samples data line i
\* into bit i while Enable and R/W are high; a read function returns with
\* Enable low after one read transfer in 8-bit mode and two in 4-bit mode,
\* and its result is the value of the one transfer, or 16 times the first
\* nibble plus the second, which is the byte the controller presented (for
\* _lcd_read_data on an idle controller the byte stored last), whatever
\* byte it is.
C22_ReadTransfer ==
    (board.rw # RW_UNUSED /\ Handle # NULL /\ Handle._displayfunction # Undef) =>
       LET w == BusWidth(Handle)
       IN  /\ Lines(gpio, board).rw = 1 => BusIsInput
           /\ (Len(todo) >= 3 /\ todo[1].op = "gpio_put"
                 /\ todo[1].a = board.en /\ todo[1].b = 1
                 /\ todo[3].op = "gpio_get") =>
                 Lines(gpio, board).rw = 1 /\ BusIsInput
           /\ (todo # <<>> /\ todo[1].op = "gpio_get") =>
                 /\ EnableHigh
                 /\ Lines(gpio, board).rw = 1
                 /\ BusIsInput
                 /\ todo[1].b < w
                 /\ todo[1].a = Handle._data_pins[todo[1].b + 1]
           /\ (op.name \in ReadNames /\ todo = <<>>) =>
                 /\ ~EnableHigh
                 /\ wlog = <<>>
                 /\ Len(rdv) = 8 \div w
                 /\ \A i \in 1..Len(rdv) :
                       rdv[i].rs = (IF op.name = "_lcd_read_data" THEN 1 ELSE 0)
                 /\ reg.command
                       = (IF w = 8 THEN rdv[1].val
                          ELSE 16 * rdv[1].val + rdv[2].val)
                 /\ reg.command = Presented
                 /\ (op.name = "_lcd_read_data" /\ op.c0.busy = "no") =>
                       reg.command = op.c0.store.val

\* _lcd_read_data has returned 0xA5 on a 4-bit handle, the byte
\* lcd_write_char had stored in the controller.
C22_Witness ==
    /\ op.name = "_lcd_read_data"
    /\ todo = <<>>
    /\ ~EightBit(h)
    /\ op.c0.busy = "no"
    /\ op.c0.store.val = 165
    /\ reg.command = 165
    /\ rdv = <<[rs |-> 1, val |-> 10], [rs |-> 1, val |-> 5]>>

\* C23: on a board without R/W, _lcd_read_4_bits returns 0x0F and
\* _lcd_read_8_bits 0xFF, and _lcd_read_command and _lcd_read_data return
\* 0xFF in both bus modes; their only GPIO call is the gpio_put on RS: Enable
\* is not raised, the data lines stay outputs, no line is sampled, no
\* transfer is on the bus and the controller is as it was.  A public
\* operation never calls a read function there, so no byte it sends is made
\* from the sentinel: lcd_create_char sends its eight address and pattern
\* pairs and nothing else.
C23_Sentinel ==
    (board.rw = RW_UNUSED /\ Handle # NULL /\ Handle._displayfunction # Undef) =>
       /\ op.name \in ReadNames =>
             /\ \A i \in 1..Len(todo) :
                   todo[i].op \notin
                      {"gpio_get", "gpio_set_dir_in_masked",
                       "gpio_set_dir_out_masked", "sleep_us"}
             /\ NextEnablePut(todo) = -1
             /\ ~EnableHigh
             /\ BusIsOutput
             /\ wlog = <<>>
             /\ rdv = <<>>
             /\ ctrl = op.c0 \/ (op.c0.busy # "no" /\ ctrl = Complete(op.c0))
             /\ todo = <<>> =>
                   /\ reg.data = (IF EightBit(Handle) THEN 255 ELSE 15)
                   /\ reg.command = 255
                   /\ Level(gpio, board.rs)
                         = (IF op.name = "_lcd_read_data" THEN 1 ELSE 0)
       /\ op.name \notin ReadNames =>
             /\ \A i \in 1..Len(todo) : todo[i].op \notin ReadOps
             /\ reg.data = 0
             /\ reg.command = 0
             /\ reg.ddram = 0
       /\ (op.name = "lcd_create_char" /\ todo = <<>>) =>
             /\ Len(reg.sent) = 16
             /\ \A i \in 1..8 :
                   /\ reg.sent[2 * i - 1]
                         = [rs |-> 0,
                            b |-> LCD_SETCGRAMADDR + 8 * (op.args.num % 8) + i - 1]
                   /\ reg.sent[2 * i] = [rs |-> 1, b |-> op.args.data[i]]

\* _lcd_read_command has returned 0xFF on a 4-bit handle without R/W.
C23_Witness ==
    /\ board.rw = RW_UNUSED
    /\ op.name = "_lcd_read_command"
    /\ h # NULL
    /\ ~EightBit(h)
    /\ todo = <<>>
    /\ reg.data = 15
    /\ reg.command = 255

\* The busy flag of the controller is stuck.
Stuck == ctrl.busy = "stuck"

BytesDone == Len(ChannelWrites) \div (8 \div BusWidth(Handle))

\* C25: whatever interface state the controller starts in (8-bit; 4-bit
\* before a high nibble; 4-bit before a low nibble), once init has called
\* _lcd_send_command for the function-set command the controller is in the
\* bus mode of the init called, in 4-bit mode it expects a high nibble
\* whenever the driver starts a byte, it has lost no write, and the byte it
\* executes is the byte the driver sent last: the function-set command and
\* every byte after it, in init and in the operations that follow.
C25_Handshake ==
    (Handle # NULL /\ Handle._displayfunction # Undef /\ Len(reg.sent) > 0) =>
       /\ ctrl.dl8 = EightBit(Handle)
       /\ (~ctrl.dl8 /\ (todo = <<>> \/ (todo[1].op = "gpio_put"
                                          /\ todo[1].a = board.rs))) =>
             ctrl.phase = "hi"
       /\ ~ctrl.overrun
       /\ BytesDone >= 1 => ctrl.pend = reg.sent[BytesDone]
       /\ (BytesDone >= 1 /\ ctrl.busy = "no") => ctrl.last = reg.sent[BytesDone]
       /\ (op.name \in InitNames /\ BytesDone >= 1) =>
             /\ reg.sent[1].b = Or(LCD_FUNCTIONSET, Handle._displayfunction)
             /\ Bit(reg.sent[1].b, 4) = (IF op.args.eightbitmode THEN 1 ELSE 0)

\* lcd_init_8bit has returned on a controller that was in 4-bit mode before
\* a low nibble: the controller is in 8-bit mode and has executed the last
\* command of init, 0x02.
C25_Witness ==
    /\ op.name = "lcd_init_8bit"
    /\ ~op.c0.dl8
    /\ op.c0.phase = "lo"
    /\ h # NULL
    /\ todo = <<>>
    /\ ctrl.dl8
    /\ ctrl.last = [rs |-> 0, b |-> LCD_RETURNHOME]
    /\ Len(reg.sent) = 5

\* C26 as stated: whatever rows was at init (0 included) and whatever the
\* row argument is, lcd_set_cursor reads _row_offsets with an index in
\* 0..3.
C26_IndexInTable ==
    (op.name = "lcd_set_cursor" /\ op.h0 # NULL) =>
       CursorRow(op.h0._numlines, op.args.row) \in 0..(max_lines - 1)

\* C27: lcd_set_cursor(col, row) on a valid handle sends one command,
\* whatever col is (also beyond the columns of the display): a byte in
\* 0..255 with bit 7 set, a set-DDRAM-address command, whose low 7 bits are
\* (base + col) mod 128, base being the byte read from _row_offsets for the
\* row.
C27_CursorByte ==
    (op.name = "lcd_set_cursor" /\ op.h0 # NULL) =>
       LET base == RowOffsetAt(op.h0, CursorRow(op.h0._numlines, op.args.row),
                               op.args.ub)
       IN  /\ Len(reg.sent) = 1
           /\ reg.sent[1].rs = 0
           /\ reg.sent[1].b \in 128..255
           /\ Bit(reg.sent[1].b, 7) = 1
           /\ reg.sent[1].b % 128 = (base + op.args.col) % 128
           /\ op.h0._numlines >= 1 =>
                 base = op.h0._row_offsets[Min(Min(op.args.row,
                                                   op.h0._numlines - 1), 3) + 1]

\* lcd_set_cursor(255, 3) on a handle of 16 columns and 4 rows: the sum
\* 0x50 + 255 does not fit in a byte, the command is 0xCF.
C27_Witness ==
    /\ op.name = "lcd_set_cursor"
    /\ op.h0 # NULL
    /\ op.h0._numlines = 4
    /\ op.h0._row_offsets = <<0, 64, 16, 80>>
    /\ op.args.col = 255
    /\ op.args.row = 3
    /\ reg.sent = <<[rs |-> 0, b |-> 207]>>

\* The operations that change _displaycontrol, those that change
\* _displaymode, and those that are to change no cached flag byte.
ControlToggles ==
    {"lcd_display_off", "lcd_display_on", "lcd_blink_off", "lcd_blink_on",
     "lcd_cursor_off", "lcd_cursor_on"}
ModeToggles ==
    {"lcd_left_to_right", "lcd_right_to_left", "lcd_autoscroll_off",
     "lcd_autoscroll_on"}
NoFlagOps ==
    {"lcd_clear", "lcd_home", "lcd_scroll_display_left",
     "lcd_scroll_display_right", "lcd_set_cursor", "lcd_write_char",
     "lcd_write_string", "lcd_write_char_at", "lcd_write_string_at",
     "lcd_create_char"}

\* C28: a public operation other than init and deinit, called on the handle
\* init returned, returns the same handle with _displayfunction, _numlines,
\* _row_offsets and the pins as they were; the display, cursor and blink
\* toggles leave _displaymode as it was, the direction and autoscroll
\* toggles leave _displaycontrol as it was, and clear, home, the scrolls,
\* set-cursor, the writes and create-char leave the whole handle as it was.
C28_Frame ==
    (op.name \in ControlToggles \cup ModeToggles \cup NoFlagOps
       /\ op.h0 # NULL) =>
       /\ h # NULL
       /\ h._displayfunction = op.h0._displayfunction
       /\ EightBit(h) = EightBit(op.h0)
       /\ h._numlines = op.h0._numlines
       /\ h._row_offsets = op.h0._row_offsets
       /\ h._rs_pin = op.h0._rs_pin
       /\ h._rw_pin = op.h0._rw_pin
       /\ h._enable_pin = op.h0._enable_pin
       /\ h._data_pins = op.h0._data_pins
       /\ h._data_pins_mask = op.h0._data_pins_mask
       /\ op.name \in ControlToggles => h._displaymode = op.h0._displaymode
       /\ op.name \in ModeToggles => h._displaycontrol = op.h0._displaycontrol
       /\ op.name \in NoFlagOps => h = op.h0

\* lcd_autoscroll_on has returned on a handle whose cursor and blink were
\* on: _displaymode has changed, _displaycontrol is still 0x07.
C28_Witness ==
    /\ op.name = "lcd_autoscroll_on"
    /\ op.h0 # NULL
    /\ op.h0._displaycontrol = 7
    /\ op.h0._displaymode = LCD_ENTRYLEFT
    /\ h._displaymode = LCD_ENTRYLEFT + LCD_ENTRYSHIFTINCREMENT
    /\ h._displaycontrol = 7

\* A data line of the board is driven by its pin.
BusDriven ==
    \E i \in 1..8 : gpio[board.db[i]].fn = "sio" /\ gpio[board.db[i]].oe = 1

\* C29: with R/W wired, in no state of init, of an operation or of deinit
\* is R/W high while a data line is an output: the call that raises R/W is
\* made with every data line an input, and the call that makes the data
\* lines outputs is made with R/W low.
C29_NoContention ==
    board.rw # RW_UNUSED =>
       /\ ~(Lines(gpio, board).rw = 1 /\ BusDriven)
       /\ (todo # <<>> /\ todo[1].op = "gpio_put" /\ todo[1].a = board.rw
             /\ todo[1].b = 1) => ~BusDriven
       /\ (todo # <<>>
             /\ todo[1].op \in {"gpio_set_dir_out_masked", "gpio_set_dir"}) =>
             Lines(gpio, board).rw = 0

\* In an operation that has made a write transfer, the status read of the
\* next byte is under way: R/W and Enable are high and the data lines are
\* inputs.
C29_Witness ==
    /\ board.rw # RW_UNUSED
    /\ op.name = "lcd_write_string"
    /\ Len(wlog) >= 1
    /\ Lines(gpio, board).rw = 1
    /\ EnableHigh
    /\ ~BusDriven
    /\ todo # <<>>
    /\ todo[1].op = "gpio_get"

\* The GPIO calls made while Enable is high: the writes and reads of the
\* data lines.
HighOps == {"gpio_put", "gpio_get", "sleep_us"}

\* C30: while Enable is high the only GPIO calls are gpio_put on a data
\* line, gpio_get and the gpio_put that lowers Enable, so RS, R/W and the
\* direction of the data lines change with Enable low only, and Enable is
\* raised from low and lowered before it is raised again; when a public
\* operation on a valid handle returns Enable is low, and with R/W wired
\* no read transfer has followed the last write transfer (lcd_write_string
\* of the empty string makes no transfer at all): R/W is low and the data
\* lines are outputs (after deinit, the released pins were left so).
C30_Quiescent ==
    (Handle # NULL /\ Handle._displayfunction # Undef) =>
       /\ (EnableHigh /\ todo # <<>>) =>
             /\ todo[1].op \in HighOps
             /\ todo[1].op = "gpio_put" =>
                   \/ todo[1].a \in Handle._data_pins_mask
                   \/ todo[1].a = board.en /\ todo[1].b = 0
       /\ EnableHigh => NextEnablePut(todo) = 0
       /\ (op.name # "idle" /\ todo = <<>>) =>
             /\ ~EnableHigh
             /\ board.rw # RW_UNUSED =>
                   /\ rdv = <<>>
                   /\ op.name \notin {"lcd_write_string", "lcd_write_string_at"}
                         => Len(wlog) >= 1
                   /\ gpio[board.rw].out = 0
                   /\ gpio[board.rw].oe = 1
                   /\ \A p \in Handle._data_pins_mask : gpio[p].oe = 1
                   /\ h # NULL => Lines(gpio, board).rw = 0 /\ BusIsOutput

\* lcd_home has returned with R/W wired: its write transfer followed status
\* reads, and R/W is low and the data lines are outputs again.
C30_Witness ==
    /\ board.rw # RW_UNUSED
    /\ op.name = "lcd_home"
    /\ h # NULL
    /\ todo = <<>>
    /\ Len(wlog) >= 1
    /\ wlog[1].pre # <<>>
    /\ Lines(gpio, board).rw = 0
    /\ BusIsOutput
    /\ ~EnableHigh

\* C31: on a 4-bit handle the transfers pair up into bytes.  While a byte
\* lacks its second transfer the operation is running and RS and R/W are as
\* in the first transfer; the two write transfers of a byte of the channel
\* have the same RS and no read transfer between them, and the read
\* transfers before the byte are the two of one status read, both with the
\* same RS; when a public operation returns no byte lacks a transfer (the
\* number of 4-bit transfers since the handshake is even) and the controller
\* is in 4-bit mode and expects a high nibble.
C31_NibblePairs ==
    (Handle # NULL /\ Handle._displayfunction # Undef /\ ~EightBit(Handle)) =>
       /\ half # <<>> =>
             /\ op.name # "idle"
             /\ todo # <<>>
             /\ Lines(gpio, board).rs = half[1].rs
             /\ Lines(gpio, board).rw = half[1].rw
       /\ \A k \in 1..Len(ChannelWrites) :
             LET e == ChannelWrites[k]
             IN  IF k % 2 = 0
                   THEN /\ e.rs = ChannelWrites[k - 1].rs
                        /\ e.via = ChannelWrites[k - 1].via
                        /\ e.pre = <<>>
                   ELSE /\ Len(e.pre) \in {0, 2}
                        /\ Len(e.pre) = 2 => e.pre[1].rs = e.pre[2].rs
       /\ (op.name # "idle" /\ todo = <<>>) =>
             /\ half = <<>>
             /\ Len(wlog) % 2 = 0
             /\ ~ctrl.dl8
             /\ ctrl.phase = "hi"

\* lcd_create_char has returned on a 4-bit handle with R/W wired: 17 bytes
\* in 34 write transfers, with the status reads between them.
C31_Witness ==
    /\ op.name = "lcd_create_char"
    /\ h # NULL
    /\ ~EightBit(h)
    /\ board.rw # RW_UNUSED
    /\ todo = <<>>
    /\ Len(wlog) = 34
    /\ Len(wlog[33].pre) = 2
    /\ half = <<>>
    /\ ctrl.phase = "hi"

\* The last command of sent whose byte is in S, or -1 when there is none.
LastCommand(sent, S) ==
    LET I == {i \in 1..Len(sent) : sent[i].rs = 0 /\ sent[i].b \in S}
    IN  IF I = {} THEN -1
        ELSE sent[CHOOSE i \in I : \A j \in I : j <= i].b

\* C32: when init or an operation returns a handle, _displaycontrol is in
\* 0..7 and _displaymode in 0..3; _displaycontrol is the low three bits of
\* the last display-control command (0x08..0x0F) the operation sent, and as
\* it was at the call when the operation sent none, and so is _displaymode
\* with the low two bits of the last entry-mode command (0x04..0x07); init
\* sends both commands; a display, cursor or blink toggle sends one command,
\* in 0x08..0x0F, and a direction or autoscroll toggle one in 0x04..0x07.
\* By induction over the calls the cached bytes are those of the most
\* recent display-control and entry-mode commands sent.
C32_Coherence ==
    (op.name # "idle" /\ h # NULL) =>
       LET dc == LastCommand(reg.sent, 8..15)
           dm == LastCommand(reg.sent, 4..7)
       IN  /\ h._displaycontrol \in 0..7
           /\ h._displaymode \in 0..3
           /\ IF dc # -1 THEN h._displaycontrol = dc % 8
              ELSE op.h0 # NULL /\ h._displaycontrol = op.h0._displaycontrol
           /\ IF dm # -1 THEN h._displaymode = dm % 4
              ELSE op.h0 # NULL /\ h._displaymode = op.h0._displaymode
           /\ op.name \in InitNames => dc # -1 /\ dm # -1
           /\ op.name \in ControlToggles =>
                 /\ Len(reg.sent) = 1
                 /\ reg.sent[1].rs = 0
                 /\ reg.sent[1].b \in 8..15
           /\ op.name \in ModeToggles =>
                 /\ Len(reg.sent) = 1
                 /\ reg.sent[1].rs = 0
                 /\ reg.sent[1].b \in 4..7

\* lcd_display_off has returned on a handle whose cursor and blink were on
\* and whose entry mode had been changed: the command sent is 0x0B.
C32_Witness ==
    /\ op.name = "lcd_display_off"
    /\ op.h0 # NULL
    /\ op.h0._displaycontrol = 7
    /\ h # NULL
    /\ h._displaycontrol = 3
    /\ h._displaymode = 1
    /\ reg.sent = <<[rs |-> 0, b |-> 11]>>

\* lcd_create_char is about to raise Enable for the status read that
\* supplies the address to restore: the read it makes before its first
\* write, outside the channel functions.
AddressRead ==
    /\ op.name = "lcd_create_char"
    /\ op.h0 # NULL
    /\ board.rw # RW_UNUSED
    /\ wlog = <<>>
    /\ reg.sent = <<>>
    /\ todo # <<>>
    /\ todo[1].op = "gpio_put"
    /\ todo[1].a = board.en
    /\ todo[1].b = 1
    /\ Lines(gpio, board).rw = 1

\* C33: with R/W wired, the status read of lcd_create_char that supplies the
\* DDRAM address to restore is made while the controller is not busy, and
\* the address lcd_create_char keeps is the address the controller holds
\* once the instruction of the operation before has completed.
C33_AddressReadSettled ==
    /\ AddressRead => ctrl.busy = "no"
    /\ (/\ op.name = "lcd_create_char"
        /\ op.h0 # NULL
        /\ board.rw # RW_UNUSED
        /\ Len(reg.sent) >= 1) => reg.ddram = Settled(op.c0).ac

\* Write transfer k of the channel completes a clear (0x01) or a home
\* (0x02) command: the one transfer of the byte on 8 lines, the low nibble
\* after the high nibble 0 on 4 lines.
ClearOrHome(k) ==
    LET e == ChannelWrites[k]
    IN  /\ e.via = "cmd"
        /\ e.rs = 0
        /\ e.val \in {LCD_CLEARDISPLAY, LCD_RETURNHOME}
        /\ e.w = 4 => k % 2 = 0 /\ ChannelWrites[k - 1].val = 0

\* After the last write transfer the operation has only slept, and its
\* next call is a sleep again.
StillSleeping ==
    /\ trail
    /\ todo # <<>>
    /\ todo[1].op \in {"sleep_ms", "sleep_us"}

\* C34: init, deinit and every operation sleep at least 5 ms between the
\* write transfer that completes a clear or a home command and the next
\* GPIO call or the return, whichever comes first, with and without R/W.
C34_ClearHomeDelay ==
    (Handle # NULL /\ Handle._displayfunction # Undef) =>
       \A k \in 1..Len(ChannelWrites) :
          ClearOrHome(k) =>
             \/ ChannelWrites[k].gap >= 5000
             \/ k = Len(ChannelWrites) /\ StillSleeping

\* lcd_deinit has sent the display-off command after clear and home, each
\* followed by its delay.
C34_Witness ==
    /\ op.name = "lcd_deinit"
    /\ op.h0 # NULL
    /\ LET bytes == Assemble(ChannelWrites, BusWidth(Handle))
       IN  /\ Len(bytes) = 3
           /\ bytes[1] = [rs |-> 0, b |-> LCD_CLEARDISPLAY]
           /\ bytes[2] = [rs |-> 0, b |-> LCD_RETURNHOME]
    /\ ~trail
    /\ \E k \in 1..Len(ChannelWrites) :
          ClearOrHome(k) /\ ChannelWrites[k].gap >= 5000

\* The handle after flag operation a and then flag operation b, both called
\* on the handle hh.
AfterBoth(hh, a, b) ==
    CmdRun(<<Ins(a, 0, 0), Ins(b, 0, 0)>>, hh, FreshReg, Env(0, TRUE)).h

\* C35: when a flag operation returns, called right after another call on
\* the same handle: after the same operation, it has sent the bytes that
\* call sent and the handle is as that call left it; after the operation
\* that sets the flag it clears, the flag is clear and every other bit of
\* the cached byte, and the rest of the handle, is as before the two calls;
\* after an operation on another flag of the same cached byte, the handle is
\* the one the two operations leave when called in the other order.
C35_Toggles ==
    (op.name \in DOMAIN Toggles /\ op.h0 # NULL) =>
       LET p == op.c0.prev
           t == Toggles[op.name]
       IN  /\ p.name = op.name =>
                 /\ Len(reg.sent) = 1
                 /\ reg.sent = p.sent
                 /\ h = op.h0
           /\ p.name \in DOMAIN Toggles =>
                 LET u == Toggles[p.name]
                 IN  /\ (u.f = t.f /\ u.flag = t.flag /\ u.set /\ ~t.set) =>
                           /\ And(h[t.f], t.flag) = 0
                           /\ OneBitChanged(p.h0[t.f], h[t.f], t.flag, FALSE)
                           /\ h = [p.h0 EXCEPT ![t.f] = h[t.f]]
                     /\ (u.f = t.f /\ u.flag # t.flag) =>
                           /\ h = AfterBoth(p.h0, op.name, p.name)
                           /\ h[t.f] = AfterBoth(p.h0, op.name, p.name)[t.f]

\* lcd_cursor_on has returned for the second time in a row on a handle whose
\* blink flag was on: both calls sent 0x0F.
C35_Witness ==
    /\ op.name = "lcd_cursor_on"
    /\ op.h0 # NULL
    /\ op.c0.prev.name = "lcd_cursor_on"
    /\ op.c0.prev.h0._displaycontrol = 5
    /\ op.c0.prev.sent = <<[rs |-> 0, b |-> 15]>>
    /\ reg.sent = <<[rs |-> 0, b |-> 15]>>
    /\ h._displaycontrol = 7
=============================================================================
